---- MODULE Spec2Model ----
(***************************************************************************)
(* StelloVault server: wallet account service (challenge issue/consume,    *)
(* link / unlink / set-primary under the User row lock) and the escrow     *)
(* status machine (webhook events and the timeout sweep), modelled over a  *)
(* READ COMMITTED relational store: every statement reads the committed    *)
(* rows overlaid with the writes of its own transaction, a written row is  *)
(* locked until commit or rollback, and unique indexes are enforced at the *)
(* write.                                                                  *)
(***************************************************************************)
EXTENDS Integers, Sequences, FiniteSets, Bags, TLC

\* Absent values, one per column type: a text id, a character string, a time.
NULL == "NULL"
NoString == <<>>
NoTime == -1

\* ------------------------------------------------------------------ bounds
MaxTicks == 1
TickMs == 600000
MaxWalletIds == 3
MaxRepayments == 3
MaxSweepRuns == 2
MaxCreating == 1

\* -------------------------------------------------------- program constants
CHALLENGE_TTL_MS == 10 * 60 * 1000

Procs == {"p1", "p2"}
UserIds == {"u1", "u2"}
WalletIds == 1..MaxWalletIds
\* The runs of the timeout sweep that can be under way at a time.
SweepRuns == 1..MaxSweepRuns
Purposes == {"LOGIN", "LINK_WALLET"}

\* Character strings are sequences of one-character strings.
KeyA == <<"G", "A">>
KeyB == <<"G", "B">>
KeyC == <<"G", "C">>
ValidKeys == {KeyA, KeyB, KeyC}
\* Addresses users are created with: two keys, a raw variant, an invalid one.
RawAddresses == {KeyA, KeyB, <<" ", "g", "a">>, <<"X">>}

Nonce1 == <<"n", "1">>
Nonce2 == <<"n", "2">>
Nonces == {Nonce1, Nonce2}

\* ------------------------------------------------------------ string helpers
ToUpperChar(c) ==
    CASE c = "g" -> "G"
      [] c = "a" -> "A"
      [] c = "b" -> "B"
      [] c = "c" -> "C"
      [] c = "n" -> "N"
      [] c = "x" -> "X"
      [] OTHER -> c

ToUpperCase(s) == [i \in 1..Len(s) |-> ToUpperChar(s[i])]

RECURSIVE TrimStart(_)
TrimStart(s) ==
    IF s # <<>> /\ Head(s) = " " THEN TrimStart(Tail(s)) ELSE s

RECURSIVE TrimEnd(_)
TrimEnd(s) ==
    IF s # <<>> /\ s[Len(s)] = " " THEN TrimEnd(SubSeq(s, 1, Len(s) - 1)) ELSE s

Trim(s) == TrimEnd(TrimStart(s))

\* requireNonEmptyString: the trimmed value; the empty string stands for the
\* ValidationError the code throws.
requireNonEmptyString(value) == Trim(value)

normalizeAddress(address) == ToUpperCase(requireNonEmptyString(address))

\* Keypair.fromPublicKey accepts exactly the well-formed public keys.
assertValidStellarAddress(address) == address \in ValidKeys

buildChallengeMessage(purpose, nonce) ==
    <<"stellovault", IF purpose = "LOGIN" THEN "login" ELSE "link-wallet", nonce>>


\* A signature as submitted: its text encoding and the 64 bytes it carries,
\* represented by the key that signed and the message that was signed.
Signature(enc, signer, msg) == [enc |-> enc, signer |-> signer, msg |-> msg]

\* The signature the holder of key a gives for the challenge message.
Sign(a, purpose, nonce) == Signature("base64", a, buildChallengeMessage(purpose, nonce))

\* The label of the repository's first link, and no label.
LabelPrimary == <<"P", "r", "i", "m", "a", "r", "y">>

\* Link requests as submitted: well-formed ones signed by the key being linked
\* (the first key under a label), and ones with a flaw in the address, the
\* nonce or the signature.
LinkRequests ==
    {[userId |-> u, address |-> a, nonce |-> n, signature |-> Sign(a, "LINK_WALLET", n),
      label |-> IF a = KeyA THEN LabelPrimary ELSE NoString] :
        u \in UserIds, a \in ValidKeys, n \in Nonces}
    \cup {[userId |-> u, address |-> <<" ", "g", "a">>, nonce |-> <<"n", "1", " ">>,
           signature |-> Signature("hex", KeyA, buildChallengeMessage("LINK_WALLET", Nonce1)),
           label |-> <<" ">>] :
            u \in UserIds}
    \cup {[userId |-> "u1", address |-> KeyA, nonce |-> Nonce1, signature |-> sg,
           label |-> NoString] :
            sg \in {Sign(KeyB, "LINK_WALLET", Nonce1), Sign(KeyA, "LOGIN", Nonce1),
                    Sign(KeyA, "LINK_WALLET", Nonce2),
                    Signature("malformed", KeyA, buildChallengeMessage("LINK_WALLET", Nonce1))}}
    \cup {[userId |-> "u1", address |-> <<"X">>, nonce |-> Nonce1,
           signature |-> Sign(KeyA, "LINK_WALLET", Nonce1), label |-> NoString],
          [userId |-> "u1", address |-> KeyA, nonce |-> <<" ">>,
           signature |-> Sign(KeyA, "LINK_WALLET", Nonce1), label |-> NoString]}

\* Challenge requests as submitted.
ChallengeRequests ==
    {[address |-> a, purpose |-> "LINK_WALLET", userId |-> u] : a \in ValidKeys, u \in UserIds}
    \cup {[address |-> <<" ", "g", "a">>, purpose |-> "LINK_WALLET", userId |-> "u1"],
          [address |-> KeyA, purpose |-> "LOGIN", userId |-> NULL],
          [address |-> KeyA, purpose |-> "LINK_WALLET", userId |-> NULL],
          [address |-> <<"X">>, purpose |-> "LINK_WALLET", userId |-> "u1"]}

\* decodeSignature: the 64 bytes, or ok = FALSE where the code throws
\* ValidationError.
decodeSignature(signature) ==
    [ok |-> signature.enc \in {"hex", "base64"},
     signer |-> signature.signer, msg |-> signature.msg]

\* Keypair.fromPublicKey(address).verify(message, signatureBytes)
KeypairVerify(address, message, signatureBytes) ==
    signatureBytes.signer = address /\ signatureBytes.msg = message

\* A handler that has lost the mapping of ConflictError.
errorMiddlewareNoConflict(err) ==
    CASE err = "ValidationError" -> 400
      [] err = "UnauthorizedError" -> 401
      [] err = "ForbiddenError" -> 403
      [] err = "NotFoundError" -> 404
      [] err = "TooManyRequestsError" -> 429
      [] OTHER -> 500

\* Central error handler and the controllers' success codes.
errorMiddleware(err) ==
    CASE err = "ValidationError" -> 400
      [] err = "UnauthorizedError" -> 401
      [] err = "ForbiddenError" -> 403
      [] err = "NotFoundError" -> 404
      [] err = "ConflictError" -> 409
      [] err = "TooManyRequestsError" -> 429
      [] OTHER -> 500

HttpStatus(response) ==
    IF response.op = "webhookEscrowUpdate" /\ response.error # "none"
    THEN (IF response.message = "Unauthorized" THEN 401 ELSE 503)
    ELSE IF response.error = "none"
    THEN (CASE response.op = "linkWallet" -> 201
            [] response.op = "unlinkWallet" -> 204
            [] OTHER -> 200)
    ELSE errorMiddleware(response.error)


\* ------------------------------------------------------------------- state
VARIABLES
    users,       \* User table: id -> stellarAddress (NoString: no such row)
    wallets,     \* Wallet table: the committed rows
    walletSeq,   \* the number of Wallet rows inserted so far, rolled back or not
    challenges,  \* WalletChallenge table: the committed rows
    creating,    \* the rows of the generateChallenge calls that await their insert
    now,         \* the wall clock, in ms
    pc,          \* per request handler: the statement it is about to run
    req,         \* per request handler: the request being served
    tx,          \* per request handler: its open transaction
    resp,        \* the HTTP response sent last: the operation and its outcome
    escrows,     \* Escrow table: id -> row (status "NONE": no such row)
    epc,         \* per request handler: its position in processEscrowEvent
    ereq,        \* per request handler: the event being processed and the row it read
    spc,         \* the timeout detector, per run: its position
    overdue,     \* the timeout detector, per run: its overdueEscrows
    flipped,     \* the timeout detector, per run: the rows its updateMany changed
    rewritten,   \* per run: the selected rows a processEscrowEvent has written since the select
    stale,       \* the handlers between read and write whose escrow row was changed since the read
    loans,       \* Loan table: id -> row (status "NONE": no such row)
    repayments,  \* Repayment table: loan id -> the amounts of its committed rows
    ltx,         \* per request handler: its open recordRepayment transaction
    published,   \* the events the step just taken handed to the notification sink
    webhookSecret \* process.env.WEBHOOK_SECRET (NoString: not configured)

walletVars == <<users, wallets, walletSeq, challenges, creating, pc, req, tx, resp>>
escrowVars == <<escrows, epc, ereq, spc, overdue, flipped, rewritten, stale>>
loanVars == <<loans, repayments, ltx>>

\* Outcome of a request: the error class thrown and its message.
Response(error, message) == [error |-> error, message |-> message]
Ok == Response("none", "ok")

NoTx == [lock |-> NULL, put |-> {}, del |-> {}, ua |-> NoString, chal |-> {}]
NoSignature == [enc |-> "none", signer |-> NoString, msg |-> <<>>]
\* A request under way: its fields, and what the callback has kept of the
\* statements it has run (the time read, isPrimary, the replacement and the
\* address to denormalize).
NoReq == [op |-> "none", userId |-> NULL, address |-> NoString, nonce |-> NoString,
          signature |-> NoSignature, walletId |-> 0, label |-> NoString,
          at |-> NoTime, isPrimary |-> FALSE, replacement |-> 0, target |-> NoString]

Ids(rows) == {w.id : w \in rows}
ChallengeKey(c) == <<c.walletAddress, c.nonce, c.purpose>>

\* What a statement of p's transaction reads: committed rows overlaid with
\* p's own uncommitted writes.
WalletView(p) ==
    {w \in wallets : w.id \notin Ids(tx[p].put) \cup tx[p].del} \cup tx[p].put
ChallengeView(p) ==
    {c \in challenges : ChallengeKey(c) \notin {ChallengeKey(d) : d \in tx[p].chal}}
        \cup tx[p].chal

\* Commit publishes the transaction's writes at once.
CommittedWallets(p) == WalletView(p)
CommittedChallenges(p) == ChallengeView(p)
CommittedUsers(p) ==
    [u \in UserIds |-> IF tx[p].lock = u /\ tx[p].ua # NoString THEN tx[p].ua ELSE users[u]]

\* The response to a request: the operation, the address and nonce submitted
\* (link requests), and the outcome.
RespondTo(op, address, nonce, result) ==
    resp' = [op |-> op, address |-> address, nonce |-> nonce,
             error |-> result.error, message |-> result.message]
Respond(op, result) == RespondTo(op, NoString, NoString, result)

Finish(p, result) ==
    /\ pc' = [pc EXCEPT ![p] = "idle"]
    /\ RespondTo(req[p].op, req[p].address, req[p].nonce, result)
    /\ tx' = [tx EXCEPT ![p] = NoTx]
    /\ req' = [req EXCEPT ![p] = NoReq]

\* A rollback that keeps the consuming update of the challenge.
AbortKeepingChallenge(p, result) ==
    /\ Finish(p, result)
    /\ challenges' = CommittedChallenges(p)
    /\ UNCHANGED <<users, wallets, creating>>

\* Rollback: every write of the transaction is dropped, its locks released.
Abort(p, result) ==
    /\ Finish(p, result)
    /\ UNCHANGED <<users, wallets, walletSeq, challenges, creating>>

Commit(p) ==
    /\ Finish(p, Ok)
    /\ users' = CommittedUsers(p)
    /\ wallets' = CommittedWallets(p)
    /\ challenges' = CommittedChallenges(p)
    /\ UNCHANGED creating

\* SELECT id FROM "User" WHERE id = userId FOR UPDATE
UserRowLockedByOther(p, u) == \E q \in Procs \ {p} : tx[q].lock = u

\* An insert of a row that references the user (its foreign-key check reads
\* the User row FOR KEY SHARE) waits for the transaction that holds the row
\* FOR UPDATE.
UserRowKeyLocked(u) == \E q \in Procs : tx[q].lock = u

\* Unique index Wallet_address_key.
WalletAddressPending(p, a) ==
    \E q \in Procs \ {p} :
        \/ \E w \in tx[q].put : w.address = a
        \/ \E w \in wallets : w.address = a /\ w.id \in tx[q].del
WalletAddressTaken(p, a) == \E w \in WalletView(p) : w.address = a

\* Unique index User_stellarAddress_key.
UserAddressPending(p, a) ==
    \E q \in Procs \ {p} :
        /\ tx[q].ua # NoString
        /\ (tx[q].ua = a \/ users[tx[q].lock] = a)
UserAddressTaken(u, a) == \E v \in UserIds \ {u} : users[v] = a


\* ------------------------------------------------------- challenge service
\* A WHERE clause that does not ask for usedAt: null.
ConsumeWhereUsedToo(c, address, nonce, purpose, userId, at) ==
    /\ c.walletAddress = address
    /\ c.nonce = nonce
    /\ c.purpose = purpose
    /\ c.expiresAt > at
    /\ (userId # NULL => c.userId = userId)

\* A WHERE clause that does not ask for the userId.
ConsumeWhereAnyUser(c, address, nonce, purpose, userId, at) ==
    /\ c.walletAddress = address
    /\ c.nonce = nonce
    /\ c.purpose = purpose
    /\ c.usedAt = NoTime
    /\ c.expiresAt > at

\* A WHERE clause that does not ask for the walletAddress.
ConsumeWhereAnyAddress(c, address, nonce, purpose, userId, at) ==
    /\ c.nonce = nonce
    /\ c.purpose = purpose
    /\ c.usedAt = NoTime
    /\ c.expiresAt > at
    /\ (userId # NULL => c.userId = userId)

\* A WHERE clause that does not ask for the purpose.
ConsumeWhereAnyPurpose(c, address, nonce, purpose, userId, at) ==
    /\ c.walletAddress = address
    /\ c.nonce = nonce
    /\ c.usedAt = NoTime
    /\ c.expiresAt > at
    /\ (userId # NULL => c.userId = userId)

\* A WHERE clause that does not ask for expiresAt > now.
ConsumeWhereExpiredToo(c, address, nonce, purpose, userId, at) ==
    /\ c.walletAddress = address
    /\ c.nonce = nonce
    /\ c.purpose = purpose
    /\ c.usedAt = NoTime
    /\ (userId # NULL => c.userId = userId)

\* The WHERE clause of the consuming updateMany.
ConsumeWhere(c, address, nonce, purpose, userId, at) ==
    /\ c.walletAddress = address
    /\ c.nonce = nonce
    /\ c.purpose = purpose
    /\ c.usedAt = NoTime
    /\ c.expiresAt > at
    /\ (userId # NULL => c.userId = userId)

\* A verification that accepts every signature.
VerifySignatureSkipped(address, nonce, signature, purpose) == Ok

\* verifyAndConsumeChallenge up to the updateMany: the error it throws, or
\* "ok" when the signature verifies.
VerifySignature(address, nonce, signature, purpose) ==
    IF requireNonEmptyString(nonce) = NoString
    THEN Response("ValidationError", "nonce is required")
    ELSE IF ~decodeSignature(signature).ok
    THEN Response("ValidationError", "Signature must be a 64-byte hex or base64 value")
    ELSE IF ~KeypairVerify(address, buildChallengeMessage(purpose, requireNonEmptyString(nonce)),
                           decodeSignature(signature))
    THEN Response("UnauthorizedError", "Invalid signature")
    ELSE Ok

\* randomBytes(24).toString("hex"): a value no earlier challenge carries.
randomBytes == IF Cardinality(challenges) + Cardinality(creating) = 0 THEN Nonce1 ELSE Nonce2

\* generateChallenge up to its await: the checks, the nonce, and expiresAt
\* from the clock as the call reads it.  The row is handed to
\* walletChallenge.create.
generateChallenge(rawAddress, purpose, userId) ==
    LET address == normalizeAddress(rawAddress) IN
    /\ Cardinality(creating) < MaxCreating
    /\ Cardinality(challenges) + Cardinality(creating) < Cardinality(Nonces)
    /\ address # NoString
    /\ assertValidStellarAddress(address)
    /\ ~(purpose = "LINK_WALLET" /\ userId = NULL)
    /\ userId # NULL => users[userId] # NoString
    /\ creating' = creating \cup
          {[walletAddress |-> address, nonce |-> randomBytes, purpose |-> purpose,
            userId |-> userId, expiresAt |-> now + CHALLENGE_TTL_MS, usedAt |-> NoTime]}
    /\ UNCHANGED <<users, wallets, walletSeq, challenges, now, pc, req, tx, resp, escrowVars,
                   loanVars, webhookSecret>>
    /\ published' = {}

\* generateChallenge: walletChallenge.create, one autocommitted insert of the
\* row the call built.  A row that names a user waits at its foreign-key
\* check while a transaction holds the lock of lockUserRow on that user's row.
generateChallengeInsert(c) ==
    /\ c \in creating
    /\ c.userId # NULL => ~UserRowKeyLocked(c.userId)
    /\ challenges' = challenges \cup {c}
    /\ creating' = creating \ {c}
    /\ UNCHANGED <<users, wallets, walletSeq, now, pc, req, tx, resp, escrowVars, loanVars,
                   webhookSecret>>
    /\ published' = {}

\* UserService.createUser: upsert keyed on the normalised stellarAddress.
NewUserId == IF users["u1"] = NoString THEN "u1" ELSE "u2"

createUser(rawAddress) ==
    LET normalised == ToUpperCase(Trim(rawAddress)) IN
    /\ Len(Trim(rawAddress)) # 0
    /\ assertValidStellarAddress(normalised)
    /\ ~(\E u \in UserIds : users[u] = normalised)
    /\ ~(\E q \in Procs : tx[q].ua = normalised)
    /\ \E u \in UserIds : users[u] = NoString
    /\ users' = [users EXCEPT ![NewUserId] = normalised]
    /\ UNCHANGED <<wallets, walletSeq, challenges, creating, now, pc, req, tx, resp, escrowVars, loanVars, webhookSecret>>
    /\ published' = {}

\* DatabaseService.createUser: prisma.user.create with the address as given,
\* neither trimmed nor checked.  The insert waits for an open transaction that
\* has written the same address, and fails (P2002) when a user has it.
databaseCreateUser(stellarAddress) ==
    /\ ~(\E u \in UserIds : users[u] = stellarAddress)
    /\ ~(\E q \in Procs : tx[q].ua = stellarAddress)
    /\ \E u \in UserIds : users[u] = NoString
    /\ users' = [users EXCEPT ![NewUserId] = stellarAddress]
    /\ UNCHANGED <<wallets, walletSeq, challenges, creating, now, pc, req, tx, resp, escrowVars, loanVars, webhookSecret>>
    /\ published' = {}

\* ---------------------------------------------------- wallet account service
\* Every awaited statement of a transaction callback is a step of its own: the
\* statement runs against the store as it is at that moment, and the code up to
\* the next await runs with it.  BEGIN is taken together with the SELECT ... FOR
\* UPDATE that follows it: a transaction that has begun and does not hold the
\* lock yet has read and written nothing.

\* lockUserRow: the error it throws, or Ok.
lockUserRow(userId) ==
    IF users[userId] = NoString THEN Response("NotFoundError", "User not found") ELSE Ok

\* What the steps of the wallet service leave alone.
WalletFrame ==
    /\ UNCHANGED <<walletSeq, now, escrowVars, loanVars, webhookSecret>>
    /\ published' = {}

\* The statement returned and the callback goes on to its next statement.
GoTo(p, next) ==
    /\ pc' = [pc EXCEPT ![p] = next]
    /\ UNCHANGED <<users, wallets, walletSeq, challenges, creating, resp>>

\* The rows the consuming updateMany of verifyAndConsumeChallenge matches.
ConsumeMatching(p, address, nonce, purpose, userId, at) ==
    {c \in ChallengeView(p) : ConsumeWhere(c, address, nonce, purpose, userId, at)}

\* The consuming update waits while another open transaction has written a
\* committed row that its WHERE clause selects.
ChallengeRowPending(p, address, nonce, purpose, userId, at) ==
    \E c \in challenges :
        /\ ConsumeWhere(c, address, nonce, purpose, userId, at)
        /\ \E q \in Procs \ {p} : \E d \in tx[q].chal : ChallengeKey(d) = ChallengeKey(c)

\* verifyAndConsumeChallenge, the check of consumeResult.count.
ConsumeOutcome(p, address, nonce, purpose, userId, at) ==
    IF Cardinality(ConsumeMatching(p, address, nonce, purpose, userId, at)) # 1
    THEN Response("UnauthorizedError", "Invalid or expired challenge")
    ELSE Ok

ConsumedRows(p, address, nonce, purpose, userId, at) ==
    {[c EXCEPT !.usedAt = at] : c \in ConsumeMatching(p, address, nonce, purpose, userId, at)}

Request(op, userId, address, nonce) ==
    [NoReq EXCEPT !.op = op, !.userId = userId, !.address = address, !.nonce = nonce]

\* The id of the row wallet.create inserts: an id no row has had before, also
\* when the row that had it was deleted or its insert rolled back.  The order
\* of the ids is the order of creation (createdAt).
NewWalletId == walletSeq + 1

\* The controller's and linkWallet's checks of the fields, before BEGIN.
linkWalletFields(address, nonce) ==
    IF address = NoString THEN Response("ValidationError", "walletAddress is required")
    ELSE IF nonce = NoString THEN Response("ValidationError", "nonce is required")
    ELSE IF ~assertValidStellarAddress(address)
    THEN Response("ValidationError", "Invalid Stellar wallet address")
    ELSE Ok

\* POST /api/wallets: the checks of the fields, BEGIN and lockUserRow.
linkWalletBegin(p, userId, rawAddress, rawNonce, signature, label) ==
    LET address == normalizeAddress(rawAddress)
        nonce == requireNonEmptyString(rawNonce)
        outcome == IF linkWalletFields(address, nonce) # Ok
                   THEN linkWalletFields(address, nonce)
                   ELSE lockUserRow(userId)
    IN
    /\ pc[p] = "idle"
    /\ linkWalletFields(address, nonce) = Ok => ~UserRowLockedByOther(p, userId)
    /\ IF outcome # Ok
       THEN /\ RespondTo("linkWallet", address, nonce, outcome)
            /\ UNCHANGED <<pc, req, tx>>
       ELSE /\ pc' = [pc EXCEPT ![p] = "link_find_wallet"]
            /\ req' = [req EXCEPT ![p] =
                         [Request("linkWallet", userId, address, nonce)
                            EXCEPT !.signature = signature, !.label = label]]
            /\ tx' = [tx EXCEPT ![p].lock = userId]
            /\ UNCHANGED resp
    /\ UNCHANGED <<users, wallets, walletSeq, challenges, creating>>
    /\ WalletFrame

\* A link without the lookup of the wallet by its address.
linkWalletUnchecked(p, address) == FALSE

\* existingWallet = tx.wallet.findUnique({where: {address}})
linkWalletCheck(p, address) == \E w \in WalletView(p) : w.address = address

\* linkWallet: wallet.findUnique and the ConflictError on a row.
linkWalletFindWallet(p) ==
    /\ pc[p] = "link_find_wallet"
    /\ IF linkWalletCheck(p, req[p].address)
       THEN Abort(p, Response("ConflictError", "Wallet address is already linked"))
       ELSE /\ GoTo(p, "link_find_user")
            /\ UNCHANGED <<req, tx>>
    /\ WalletFrame

\* addressInUseByUser && addressInUseByUser.id !== userId
addressInUseByUser(userId, address) ==
    \E v \in UserIds : users[v] = address /\ v # userId

\* linkWallet: user.findUnique, and verifyAndConsumeChallenge up to its await:
\* the clock is read and the signature is verified.
linkWalletFindUser(p) ==
    LET r == req[p]
        verified == VerifySignature(r.address, r.nonce, r.signature, "LINK_WALLET")
    IN
    /\ pc[p] = "link_find_user"
    /\ IF addressInUseByUser(r.userId, r.address)
       THEN Abort(p, Response("ConflictError", "Wallet address is already linked"))
       ELSE IF verified # Ok
       THEN Abort(p, verified)
       ELSE /\ GoTo(p, "link_consume")
            /\ req' = [req EXCEPT ![p].at = now]
            /\ UNCHANGED tx
    /\ WalletFrame

\* verifyAndConsumeChallenge: the consuming updateMany and the check of its
\* count.
linkWalletConsume(p) ==
    LET r == req[p] IN
    /\ pc[p] = "link_consume"
    /\ ~ChallengeRowPending(p, r.address, r.nonce, "LINK_WALLET", r.userId, r.at)
    /\ IF ConsumeOutcome(p, r.address, r.nonce, "LINK_WALLET", r.userId, r.at) # Ok
       THEN Abort(p, ConsumeOutcome(p, r.address, r.nonce, "LINK_WALLET", r.userId, r.at))
       ELSE /\ GoTo(p, "link_count")
            /\ tx' = [tx EXCEPT ![p].chal =
                        ConsumedRows(p, r.address, r.nonce, "LINK_WALLET", r.userId, r.at)]
            /\ UNCHANGED req
    /\ WalletFrame

\* A transaction that leaves the denormalized address alone.
UserUpdateSkipped(t, address) == t

\* tx.user.update({where: {id: userId}, data: {stellarAddress: address}})
UserUpdate(t, address) == [t EXCEPT !.ua = address]

\* A link that makes every new wallet the primary one.
IsFirstWalletAlways(walletCount) == TRUE

\* const isPrimary = walletCount === 0
IsFirstWallet(walletCount) == walletCount = 0

\* A lookup that does not filter on the owner.
WalletsOfAnyUser(p, userId) == WalletView(p)

UserWallets(p, userId) == {w \in WalletView(p) : w.userId = userId}
WalletById(rows, walletId) == CHOOSE w \in rows : w.id = walletId

\* linkWallet: wallet.count and isPrimary.
linkWalletCount(p) ==
    /\ pc[p] = "link_count"
    /\ GoTo(p, "link_create")
    /\ req' = [req EXCEPT ![p].isPrimary =
                 IsFirstWallet(Cardinality(UserWallets(p, req[p].userId)))]
    /\ UNCHANGED tx
    /\ WalletFrame

\* label?.trim() || null
normalizeLabel(label) == IF Trim(label) = <<>> THEN NoString ELSE Trim(label)

\* linkWallet: wallet.create.  The insert waits for an open transaction that
\* has written a row of the same address; a unique violation (P2002) rolls the
\* transaction back and is rethrown as ConflictError.
linkWalletCreate(p) ==
    LET r == req[p]
        createdWallet == [id |-> NewWalletId, userId |-> r.userId, address |-> r.address,
                          isPrimary |-> r.isPrimary, label |-> normalizeLabel(r.label)]
    IN
    /\ pc[p] = "link_create"
    /\ ~WalletAddressPending(p, r.address)
    /\ IF WalletAddressTaken(p, r.address)
       THEN Abort(p, Response("ConflictError", "Wallet address is already linked"))
            /\ WalletFrame
       ELSE /\ NewWalletId <= MaxWalletIds
            /\ pc' = [pc EXCEPT ![p] = IF r.isPrimary THEN "link_user_update" ELSE "commit"]
            /\ tx' = [tx EXCEPT ![p].put = @ \cup {createdWallet}]
            /\ walletSeq' = NewWalletId
            /\ UNCHANGED <<users, wallets, challenges, creating, req, resp>>
            /\ UNCHANGED <<now, escrowVars, loanVars, webhookSecret>>
            /\ published' = {}

\* user.update of the denormalized address: the statement waits for an open
\* transaction that has written the same address, and fails with P2002 when
\* another user has it.
UpdateUserAddress(p, address, conflict, next) ==
    /\ ~UserAddressPending(p, address)
    /\ IF UserAddressTaken(req[p].userId, address)
       THEN Abort(p, conflict)
       ELSE /\ GoTo(p, next)
            /\ tx' = [tx EXCEPT ![p] = UserUpdate(@, address)]
            /\ UNCHANGED req

\* linkWallet: user.update for a first wallet.
linkWalletUserUpdate(p) ==
    /\ pc[p] = "link_user_update"
    /\ UpdateUserAddress(p, req[p].address,
                         Response("ConflictError", "Wallet address is already linked"),
                         "commit")
    /\ WalletFrame

\* $transaction resolves: the writes become visible, the locks are released.
commitTransaction(p) ==
    /\ pc[p] = "commit"
    /\ Commit(p)
    /\ WalletFrame

\* A row another transaction has written or deleted is locked until that
\* transaction ends.
WalletRowLockedByOther(p, walletId) ==
    \E q \in Procs \ {p} : walletId \in Ids(tx[q].put) \cup tx[q].del

\* wallets.find(item => item.id !== walletId) over the rows in creation order.
FirstOther(rows, walletId) ==
    CHOOSE w \in rows : w.id # walletId /\ \A x \in rows : x.id # walletId => w.id <= x.id

\* An updateMany that clears no flag.
ClearSkipped(rows) == rows

\* updateMany({where: {userId}, data: {isPrimary: false}})
ClearPrimary(rows) == {[w EXCEPT !.isPrimary = FALSE] : w \in rows}

\* The transaction after the write of rows.
PutRows(t, rows) == [t EXCEPT !.put = {w \in @ : w.id \notin Ids(rows)} \cup rows]

\* The clearing updateMany as a statement: it waits for the rows of the user
\* that another open transaction has written.
ClearStatement(p, next) ==
    /\ \A w \in UserWallets(p, req[p].userId) : ~WalletRowLockedByOther(p, w.id)
    /\ GoTo(p, next)
    /\ tx' = [tx EXCEPT ![p] = PutRows(@, ClearPrimary(UserWallets(p, req[p].userId)))]

\* wallet.update({where: {id}, data: {isPrimary: true}}) as a statement: P2025
\* when the row is gone; the caller may keep the address of the row returned.
SetStatement(p, walletId, next, returned) ==
    /\ ~WalletRowLockedByOther(p, walletId)
    /\ IF walletId \notin Ids(WalletView(p))
       THEN Abort(p, Response("PrismaClientKnownRequestError", "P2025"))
       ELSE /\ GoTo(p, next)
            /\ tx' = [tx EXCEPT ![p] =
                        PutRows(@, {[WalletById(WalletView(p), walletId)
                                        EXCEPT !.isPrimary = TRUE]})]
            /\ req' = IF returned
                      THEN [req EXCEPT ![p].target =
                              WalletById(WalletView(p), walletId).address]
                      ELSE req

\* BEGIN and lockUserRow of unlinkWallet and setPrimaryWallet.
BeginLocked(p, op, userId, walletId, next) ==
    /\ pc[p] = "idle"
    /\ ~UserRowLockedByOther(p, userId)
    /\ IF lockUserRow(userId) # Ok
       THEN /\ Respond(op, lockUserRow(userId))
            /\ UNCHANGED <<pc, req, tx>>
       ELSE /\ pc' = [pc EXCEPT ![p] = next]
            /\ req' = [req EXCEPT ![p] = [NoReq EXCEPT !.op = op, !.userId = userId,
                                                       !.walletId = walletId]]
            /\ tx' = [tx EXCEPT ![p].lock = userId]
            /\ UNCHANGED resp
    /\ UNCHANGED <<users, wallets, walletSeq, challenges, creating>>

\* DELETE /api/wallets/:id: BEGIN and lockUserRow.
unlinkWallet(p, userId, walletId) ==
    /\ BeginLocked(p, "unlinkWallet", userId, walletId, "unlink_find")
    /\ WalletFrame

\* The checks without the one for the only wallet.
unlinkWalletCheckAnyCount(rows, walletId) ==
    IF walletId \notin Ids(rows)
    THEN Response("NotFoundError", "Wallet not found")
    ELSE Ok

\* unlinkWallet: the checks on the rows findMany returned.
unlinkWalletCheck(rows, walletId) ==
    IF walletId \notin Ids(rows)
    THEN Response("NotFoundError", "Wallet not found")
    ELSE IF Cardinality(rows) <= 1
    THEN Response("ValidationError", "Cannot unlink the only wallet")
    ELSE Ok

\* unlinkWallet: wallet.findMany, the checks, and the choice of the
\* replacement when the wallet is the primary one.
unlinkWalletFind(p) ==
    LET r == req[p]
        found == UserWallets(p, r.userId)
        outcome == unlinkWalletCheck(found, r.walletId)
    IN
    /\ pc[p] = "unlink_find"
    /\ IF outcome # Ok
       THEN Abort(p, outcome)
       ELSE IF WalletById(found, r.walletId).isPrimary /\ Ids(found) = {r.walletId}
       THEN Abort(p, Response("ValidationError", "Cannot unlink the only primary wallet"))
       ELSE IF WalletById(found, r.walletId).isPrimary
       THEN /\ GoTo(p, "unlink_clear")
            /\ req' = [req EXCEPT ![p].replacement = FirstOther(found, r.walletId).id,
                                  ![p].target = FirstOther(found, r.walletId).address]
            /\ UNCHANGED tx
       ELSE /\ GoTo(p, "unlink_delete")
            /\ UNCHANGED <<req, tx>>
    /\ WalletFrame

\* unlinkWallet: the clearing updateMany.
unlinkWalletClear(p) ==
    /\ pc[p] = "unlink_clear"
    /\ ClearStatement(p, "unlink_set")
    /\ UNCHANGED req
    /\ WalletFrame

\* unlinkWallet: wallet.update of the replacement.
unlinkWalletSet(p) ==
    /\ pc[p] = "unlink_set"
    /\ SetStatement(p, req[p].replacement, "unlink_user_update", FALSE)
    /\ WalletFrame

\* unlinkWallet: user.update to the address of the replacement as it was read.
unlinkWalletUserUpdate(p) ==
    /\ pc[p] = "unlink_user_update"
    /\ UpdateUserAddress(p, req[p].target,
                         Response("PrismaClientKnownRequestError", "P2002"),
                         "unlink_delete")
    /\ WalletFrame

\* unlinkWallet: wallet.delete.
unlinkWalletDelete(p) ==
    LET r == req[p] IN
    /\ pc[p] = "unlink_delete"
    /\ ~WalletRowLockedByOther(p, r.walletId)
    /\ IF r.walletId \notin Ids(WalletView(p))
       THEN Abort(p, Response("PrismaClientKnownRequestError", "P2025"))
       ELSE /\ GoTo(p, "commit")
            /\ tx' = [tx EXCEPT ![p].put = {w \in @ : w.id # r.walletId},
                                ![p].del = @ \cup {r.walletId}]
            /\ UNCHANGED req
    /\ WalletFrame

\* PUT /api/wallets/:id/primary: BEGIN and lockUserRow.
setPrimaryWallet(p, userId, walletId) ==
    /\ BeginLocked(p, "setPrimaryWallet", userId, walletId, "primary_find")
    /\ WalletFrame

\* setPrimaryWallet: wallet.findFirst({where: {id, userId}}).
setPrimaryWalletFind(p) ==
    /\ pc[p] = "primary_find"
    /\ IF req[p].walletId \notin Ids(UserWallets(p, req[p].userId))
       THEN Abort(p, Response("NotFoundError", "Wallet not found"))
       ELSE /\ GoTo(p, "primary_clear")
            /\ UNCHANGED <<req, tx>>
    /\ WalletFrame

\* setPrimaryWallet: the clearing updateMany.
setPrimaryWalletClear(p) ==
    /\ pc[p] = "primary_clear"
    /\ ClearStatement(p, "primary_set")
    /\ UNCHANGED req
    /\ WalletFrame

\* setPrimaryWallet: wallet.update, which returns updatedWallet.
setPrimaryWalletSet(p) ==
    /\ pc[p] = "primary_set"
    /\ SetStatement(p, req[p].walletId, "primary_user_update", TRUE)
    /\ WalletFrame

\* setPrimaryWallet: user.update to updatedWallet.address.
setPrimaryWalletUserUpdate(p) ==
    /\ pc[p] = "primary_user_update"
    /\ UpdateUserAddress(p, req[p].target,
                         Response("PrismaClientKnownRequestError", "P2002"),
                         "commit")
    /\ WalletFrame

\* PATCH /api/wallets/:id: updateWalletLabel's findFirst.  The method opens no
\* transaction and takes no row lock: the statement reads the committed rows.
updateWalletLabelFind(p, userId, walletId, label) ==
    /\ pc[p] = "idle"
    /\ IF ~(\E w \in WalletView(p) : w.id = walletId /\ w.userId = userId)
       THEN /\ Respond("updateWalletLabel", Response("NotFoundError", "Wallet not found"))
            /\ UNCHANGED <<pc, req>>
       ELSE /\ pc' = [pc EXCEPT ![p] = "label_update"]
            /\ req' = [req EXCEPT ![p] = [NoReq EXCEPT !.op = "updateWalletLabel",
                                                       !.userId = userId,
                                                       !.walletId = walletId,
                                                       !.label = label]]
            /\ UNCHANGED resp
    /\ UNCHANGED <<users, wallets, walletSeq, challenges, creating, now, tx, escrowVars, loanVars, webhookSecret>>
    /\ published' = {}

\* updateWalletLabel's wallet.update, a statement of its own: it waits for the
\* row, throws P2025 when the row is gone, and otherwise sets the label.
updateWalletLabelUpdate(p) ==
    LET r == req[p] IN
    /\ pc[p] = "label_update"
    /\ ~WalletRowLockedByOther(p, r.walletId)
    /\ IF r.walletId \notin Ids(wallets)
       THEN /\ Finish(p, Response("PrismaClientKnownRequestError", "P2025"))
            /\ UNCHANGED wallets
       ELSE /\ wallets' = {IF w.id = r.walletId
                           THEN [w EXCEPT !.label = normalizeLabel(r.label)]
                           ELSE w : w \in wallets}
            /\ Finish(p, Ok)
    /\ UNCHANGED <<users, walletSeq, challenges, creating, now, escrowVars, loanVars, webhookSecret>>
    /\ published' = {}

\* ---------------------------------------------------------- notification sink
\* The payloads of broadcastEscrowCreated, broadcastEscrowUpdated and
\* broadcastLoanUpdated; a field a payload does not carry is "".
EscrowCreated(escrowId, buyerId, sellerId) ==
    [type |-> "ESCROW_CREATED", id |-> escrowId, status |-> "",
     buyerId |-> buyerId, sellerId |-> sellerId]
EscrowUpdated(escrowId, status) ==
    [type |-> "ESCROW_UPDATED", id |-> escrowId, status |-> status,
     buyerId |-> "", sellerId |-> ""]
LoanUpdated(loanId, status) ==
    [type |-> "LOAN_UPDATED", id |-> loanId, status |-> status,
     buyerId |-> "", sellerId |-> ""]

\* ------------------------------------------------------------ escrow service
EscrowIds == {"e0", "e1", "e2"}
EscrowStatuses == {"PENDING", "ACTIVE", "COMPLETED", "DISPUTED", "EXPIRED"}

\* A table that lets an expired escrow be activated again.
ESCROW_TRANSITIONS_REOPENING ==
    [st \in EscrowStatuses |->
        CASE st = "PENDING" -> {"PENDING", "ACTIVE", "COMPLETED", "DISPUTED", "EXPIRED"}
          [] st = "ACTIVE" -> {"ACTIVE", "COMPLETED", "DISPUTED", "EXPIRED"}
          [] st = "COMPLETED" -> {"COMPLETED"}
          [] st = "DISPUTED" -> {"DISPUTED", "ACTIVE", "COMPLETED", "EXPIRED"}
          [] st = "EXPIRED" -> {"EXPIRED", "ACTIVE"}]

ESCROW_ALLOWED_TRANSITIONS ==
    [st \in EscrowStatuses |->
        CASE st = "PENDING" -> {"PENDING", "ACTIVE", "COMPLETED", "DISPUTED", "EXPIRED"}
          [] st = "ACTIVE" -> {"ACTIVE", "COMPLETED", "DISPUTED", "EXPIRED"}
          [] st = "COMPLETED" -> {"COMPLETED"}
          [] st = "DISPUTED" -> {"DISPUTED", "ACTIVE", "COMPLETED", "EXPIRED"}
          [] st = "EXPIRED" -> {"EXPIRED"}]

\* value?.trim().toUpperCase()
TrimUpperStatus(value) ==
    CASE value = " active " -> "ACTIVE"
      [] value = "completed" -> "COMPLETED"
      [] value = " " -> ""
      [] OTHER -> value

\* normalizeStatus: the status, or "" where the code throws ValidationError.
normalizeStatus(value) ==
    IF TrimUpperStatus(value) = "" \/ TrimUpperStatus(value) \notin EscrowStatuses
    THEN ""
    ELSE TrimUpperStatus(value)

NoEscrow == [status |-> "NONE", expiresAt |-> NoTime, stellarTxHash |-> ""]
NoEvent == [escrowId |-> "", status |-> "", stellarTxHash |-> "", existing |-> "",
            buyerId |-> NULL, sellerId |-> NULL, expiresAt |-> NoTime]

\* The events a run delivers, all for the first escrow created: every status,
\* a raw and a hashed variant, an unknown status, a blank status, and one
\* with a blank id.
EventRequests ==
    {[escrowId |-> "e1", status |-> st, stellarTxHash |-> ""] : st \in EscrowStatuses}
    \cup {[escrowId |-> "e1", status |-> " active ", stellarTxHash |-> ""],
          [escrowId |-> "e1", status |-> "completed", stellarTxHash |-> "tx1"],
          [escrowId |-> "e1", status |-> "REFUNDED", stellarTxHash |-> ""],
          [escrowId |-> "e1", status |-> " ", stellarTxHash |-> ""],
          [escrowId |-> "", status |-> "ACTIVE", stellarTxHash |-> ""]}

\* contracts.escrow and contracts.loan as configured: unset, blank, or an id.
ContractIds == {"", " ", "C1"}
TrimContractId(value) == IF value = " " THEN "" ELSE value

\* An insert that does not wait for the invocation payload.
InvocationNotAwaited(built) == TRUE

\* await contractService.buildContractInvokeXDR(...) resolves.
InvocationBuilt(built) == built

\* The error of a call whose invocation payload is not built.
BuildError == Response("Error", "buildContractInvokeXDR rejected")

\* Escrow ids are fresh: one is left for every creation under way.
CreationsUnderWay == {q \in Procs : epc[q] \in {"create_find", "create_build", "create_insert"}}
FreeEscrowIds == {e \in {"e1", "e2"} : escrows[e].status = "NONE"}
NewEscrowId == IF escrows["e1"].status = "NONE" THEN "e1" ELSE "e2"

\* What the steps of createEscrow leave alone.
CreateFrame ==
    UNCHANGED <<users, wallets, walletSeq, challenges, creating, pc, req, tx, now, spc, overdue, flipped, rewritten,
                stale, loanVars, webhookSecret>>

\* createEscrow up to its first await: the error thrown, or Ok.
createEscrowCheck(buyerId, sellerId, amount, expiresAt) ==
    IF buyerId = NULL THEN Response("ValidationError", "buyerId is required")
    ELSE IF sellerId = NULL THEN Response("ValidationError", "sellerId is required")
    ELSE IF buyerId = sellerId
    THEN Response("ValidationError", "buyerId and sellerId must be different")
    ELSE IF amount <= 0 THEN Response("ValidationError", "amount must be a positive number")
    ELSE IF expiresAt <= now
    THEN Response("ValidationError", "expiresAt must be in the future")
    ELSE Ok

\* The request ends with an error, or, from its last step, with its result.
CreateReturn(p, result) ==
    /\ Respond("createEscrow", result)
    /\ epc' = [epc EXCEPT ![p] = "idle"]
    /\ ereq' = [ereq EXCEPT ![p] = NoEvent]

\* POST /api/escrows: createEscrow up to its first await.
createEscrow(p, buyerId, sellerId, amount, expiresAt) ==
    /\ epc[p] = "idle"
    /\ Cardinality(CreationsUnderWay) < Cardinality(FreeEscrowIds)
    /\ IF createEscrowCheck(buyerId, sellerId, amount, expiresAt) # Ok
       THEN /\ Respond("createEscrow", createEscrowCheck(buyerId, sellerId, amount, expiresAt))
            /\ UNCHANGED <<epc, ereq>>
       ELSE /\ epc' = [epc EXCEPT ![p] = "create_find"]
            /\ ereq' = [ereq EXCEPT ![p] = [NoEvent EXCEPT !.buyerId = buyerId,
                                                           !.sellerId = sellerId,
                                                           !.expiresAt = expiresAt]]
            /\ UNCHANGED resp
    /\ UNCHANGED escrows
    /\ published' = {}
    /\ CreateFrame

\* createEscrow: user.findMany, the check of its rows and of the contract id.
createEscrowFind(p, contractId) ==
    LET e == ereq[p] IN
    /\ epc[p] = "create_find"
    /\ IF Cardinality({u \in {e.buyerId, e.sellerId} : users[u] # NoString}) # 2
       THEN CreateReturn(p, Response("ValidationError", "buyerId or sellerId does not exist"))
       ELSE IF TrimContractId(contractId) = ""
       THEN CreateReturn(p, Response("Error",
                "Escrow contract ID not configured: contracts.escrow is empty"))
       ELSE /\ epc' = [epc EXCEPT ![p] = "create_build"]
            /\ UNCHANGED <<ereq, resp>>
    /\ UNCHANGED escrows
    /\ published' = {}
    /\ CreateFrame

\* createEscrow: the invocation builder answers.
createEscrowBuild(p, built) ==
    /\ epc[p] = "create_build"
    /\ IF InvocationBuilt(built)
       THEN /\ epc' = [epc EXCEPT ![p] = "create_insert"]
            /\ UNCHANGED <<ereq, resp>>
       ELSE CreateReturn(p, BuildError)
    /\ UNCHANGED escrows
    /\ published' = {}
    /\ CreateFrame

\* createEscrow: escrow.create, the broadcast and the return.  The insert
\* waits while a transaction holds the lock of lockUserRow on the buyer's or
\* the seller's row.
createEscrowInsert(p) ==
    LET e == ereq[p] IN
    /\ epc[p] = "create_insert"
    /\ ~UserRowKeyLocked(e.buyerId)
    /\ ~UserRowKeyLocked(e.sellerId)
    /\ escrows' = [escrows EXCEPT ![NewEscrowId] =
                     [status |-> "PENDING", expiresAt |-> e.expiresAt, stellarTxHash |-> ""]]
    /\ published' = {EscrowCreated(NewEscrowId, e.buyerId, e.sellerId)}
    /\ CreateReturn(p, Ok)
    /\ CreateFrame

\* The checks without the lookup in the transition table.
processEscrowEventUnchecked(escrowId, rawStatus) ==
    IF escrowId = "" THEN Response("ValidationError", "escrowId is required")
    ELSE IF normalizeStatus(rawStatus) = ""
    THEN Response("ValidationError",
                  "status must be one of: PENDING, ACTIVE, COMPLETED, DISPUTED, EXPIRED")
    ELSE IF escrowId \notin EscrowIds \/ escrows[escrowId].status = "NONE"
    THEN Response("NotFoundError", "Escrow not found")
    ELSE Ok

\* processEscrowEvent up to the transition check: the error thrown, or Ok.
\* (The message of an illegal transition goes on to name the two statuses.)
processEscrowEventCheck(escrowId, rawStatus) ==
    IF escrowId = "" THEN Response("ValidationError", "escrowId is required")
    ELSE IF normalizeStatus(rawStatus) = ""
    THEN Response("ValidationError",
                  "status must be one of: PENDING, ACTIVE, COMPLETED, DISPUTED, EXPIRED")
    ELSE IF escrowId \notin EscrowIds \/ escrows[escrowId].status = "NONE"
    THEN Response("NotFoundError", "Escrow not found")
    ELSE IF normalizeStatus(rawStatus) \notin ESCROW_ALLOWED_TRANSITIONS[escrows[escrowId].status]
    THEN Response("ValidationError", "Illegal escrow status transition")
    ELSE Ok

\* processEscrowEvent: input checks, the read of the row, the transition check.
processEscrowEventRead(p, escrowId, rawStatus, stellarTxHash) ==
    /\ epc[p] = "idle"
    /\ IF processEscrowEventCheck(escrowId, rawStatus) # Ok
       THEN /\ Respond("processEscrowEvent", processEscrowEventCheck(escrowId, rawStatus))
            /\ UNCHANGED <<epc, ereq>>
       ELSE /\ epc' = [epc EXCEPT ![p] = "update"]
            /\ ereq' = [ereq EXCEPT ![p] =
                          [NoEvent EXCEPT !.escrowId = escrowId,
                                          !.status = normalizeStatus(rawStatus),
                                          !.stellarTxHash = stellarTxHash,
                                          !.existing = escrows[escrowId].status]]
            /\ UNCHANGED resp
    /\ UNCHANGED <<users, wallets, walletSeq, challenges, creating, pc, req, tx, now, escrows, spc, overdue, flipped,
                   rewritten, stale, loanVars, webhookSecret>>
    /\ published' = {}

\* The handlers other than p that have read the row of escrowId and not yet
\* run their update.
ReadersOf(p, escrowId) ==
    {q \in Procs \ {p} : epc[q] = "update" /\ ereq[q].escrowId = escrowId}

\* The row after updateMany({where: {id, status: existing.status}, data}).
EscrowEventData(row, status, stellarTxHash) ==
    [row EXCEPT !.status = status,
                !.stellarTxHash = IF stellarTxHash # "" THEN stellarTxHash ELSE @]

\* An update whose WHERE clause names the id alone.
UpdateCountById(row, existingStatus) == 1

\* The count of updateMany({where: {id, status: existing.status}}).
UpdateCount(row, existingStatus) == IF row.status = existingStatus THEN 1 ELSE 0

\* processEscrowEvent: the conditional update and the check of its count.
processEscrowEventUpdate(p) ==
    LET e == ereq[p]
        count == UpdateCount(escrows[e.escrowId], e.existing)
    IN
    /\ epc[p] = "update"
    /\ IF count # 1
       THEN /\ Respond("processEscrowEvent",
                       Response("ValidationError", "Escrow status changed concurrently. Please retry with latest state."))
            /\ epc' = [epc EXCEPT ![p] = "idle"]
            /\ ereq' = [ereq EXCEPT ![p] = NoEvent]
            /\ UNCHANGED <<escrows, rewritten>>
            /\ stale' = stale \ {p}
       ELSE /\ escrows' = [escrows EXCEPT ![e.escrowId] =
                             EscrowEventData(@, e.status, e.stellarTxHash)]
            /\ epc' = [epc EXCEPT ![p] = "reread"]
            /\ stale' = (stale \ {p})
                         \cup (IF escrows'[e.escrowId] # escrows[e.escrowId]
                               THEN ReadersOf(p, e.escrowId)
                               ELSE {})
            /\ rewritten' = [s \in SweepRuns |->
                                IF spc[s] = "update" /\ e.escrowId \in overdue[s]
                                THEN rewritten[s] \cup {e.escrowId}
                                ELSE rewritten[s]]
            /\ UNCHANGED <<ereq, resp>>
    /\ UNCHANGED <<users, wallets, walletSeq, challenges, creating, pc, req, tx, now, spc, overdue, flipped,
                   loanVars, webhookSecret>>
    /\ published' = {}

\* The broadcast after the second read: an event when the status read back
\* differs from the status read first.
EscrowEventBroadcast(existingStatus, updated, escrowId) ==
    IF existingStatus # updated.status
    THEN {EscrowUpdated(escrowId, updated.status)}
    ELSE {}

\* processEscrowEvent: the second read, the broadcast and the return.
processEscrowEventReturn(p) ==
    /\ epc[p] = "reread"
    /\ Respond("processEscrowEvent", Ok)
    /\ published' = EscrowEventBroadcast(ereq[p].existing, escrows[ereq[p].escrowId],
                                        ereq[p].escrowId)
    /\ epc' = [epc EXCEPT ![p] = "idle"]
    /\ ereq' = [ereq EXCEPT ![p] = NoEvent]
    /\ UNCHANGED <<users, wallets, walletSeq, challenges, creating, pc, req, tx, now, escrows, spc, overdue, flipped,
                   rewritten, stale, loanVars, webhookSecret>>

\* A timer that is cleared by a run that ended in its catch block.
\* A run slot that is free only after a run that returned.
SweepStartsAfterSuccessOnly(s) ==
    /\ spc[s] = "idle"
    /\ \A t \in SweepRuns : t < s => spc[t] \notin {"idle", "failed"}

\* setInterval calls the sweep every 60 s, whether the runs before it have
\* returned ("idle"), ended in their catch block ("failed") or are still
\* under way: the new run is the first of the SweepRuns that is not under way.
SweepCanStart(s) ==
    /\ spc[s] \in {"idle", "failed"}
    /\ \A t \in SweepRuns : t < s => spc[t] \notin {"idle", "failed"}

\* timeoutDetector, a timer tick: the read of the overdue ACTIVE escrows.
timeoutDetectorRead(s) ==
    LET overdueEscrows == {e \in EscrowIds : escrows[e].status = "ACTIVE"
                                              /\ escrows[e].expiresAt < now}
    IN
    /\ SweepCanStart(s)
    /\ overdueEscrows # {}
    /\ overdue' = [overdue EXCEPT ![s] = overdueEscrows]
    /\ spc' = [spc EXCEPT ![s] = "update"]
    /\ rewritten' = [rewritten EXCEPT ![s] = {}]
    /\ UNCHANGED <<walletVars, now, escrows, epc, ereq, flipped, stale, loanVars, webhookSecret>>
    /\ published' = {}

\* A bulk update whose WHERE clause names the ids alone.
SweepUpdateById(ids) ==
    [e \in EscrowIds |->
        IF e \in ids THEN [escrows[e] EXCEPT !.status = "EXPIRED"] ELSE escrows[e]]

\* A sweep whose bulk update changes no row.
SweepUpdateSkipped(ids) == escrows

\* timeoutDetector: updateMany({where: {status: "ACTIVE", id in overdue}}).
SweepUpdate(ids) ==
    [e \in EscrowIds |->
        IF e \in ids /\ escrows[e].status = "ACTIVE"
        THEN [escrows[e] EXCEPT !.status = "EXPIRED"]
        ELSE escrows[e]]

timeoutDetectorUpdate(s) ==
    /\ spc[s] = "update"
    /\ escrows' = SweepUpdate(overdue[s])
    /\ flipped' = [flipped EXCEPT ![s] = {e \in overdue[s] : escrows[e].status = "ACTIVE"}]
    /\ stale' = stale \cup {q \in Procs : epc[q] = "update" /\ ereq[q].escrowId \in flipped'[s]}
    /\ spc' = [spc EXCEPT ![s] = "reread"]
    /\ UNCHANGED <<walletVars, now, epc, ereq, overdue, rewritten, loanVars, webhookSecret>>
    /\ published' = {}

\* The rows findMany({where: {id in overdue, status: "EXPIRED"}}) returns.
expiredEscrows(ids) == {e \in ids : escrows[e].status = "EXPIRED"}

\* timeoutDetector: the read of the expired rows, one broadcast for each, and
\* the end of the run.
timeoutDetectorReturn(s) ==
    /\ spc[s] = "reread"
    /\ published' = {EscrowUpdated(e, "EXPIRED") : e \in expiredEscrows(overdue[s])}
    /\ spc' = [spc EXCEPT ![s] = "idle"]
    /\ overdue' = [overdue EXCEPT ![s] = {}]
    /\ flipped' = [flipped EXCEPT ![s] = {}]
    /\ rewritten' = [rewritten EXCEPT ![s] = {}]
    /\ UNCHANGED <<walletVars, now, escrows, epc, ereq, stale, loanVars, webhookSecret>>

\* timeoutDetector: a store call of the run (the findMany, the updateMany or
\* the second findMany) rejects; the catch block logs the error and the run
\* ends without a broadcast.  A rejected updateMany changes no row.
timeoutDetectorFail(s) ==
    /\ SweepCanStart(s) \/ spc[s] \in {"update", "reread"}
    /\ spc' = [spc EXCEPT ![s] = "failed"]
    /\ overdue' = [overdue EXCEPT ![s] = {}]
    /\ flipped' = [flipped EXCEPT ![s] = {}]
    /\ rewritten' = [rewritten EXCEPT ![s] = {}]
    /\ published' = {}
    /\ UNCHANGED <<walletVars, now, escrows, epc, ereq, stale, loanVars, webhookSecret>>

\* ------------------------------------------------------- decimal arithmetic
\* A non-negative decimal amount is its count of 10^-8 units, written in
\* base 10^4 with the least significant limb first and no leading zero limb
\* (zero is the empty sequence).
Base == 10000
UnitsPerOne == 2
DecimalPrecision == 20
NumericScaleStep == 10

\* Op applied to the values of its arguments, each evaluated once.
ByValue1(Op(_), a) == CHOOSE r \in {Op(x) : x \in {a}} : TRUE
ByValue2(Op(_, _), a, b) == CHOOSE r \in {Op(x, y) : x \in {a}, y \in {b}} : TRUE

RECURSIVE BigNormFrom(_)
BigNormFrom(a) ==
    IF a # <<>> /\ a[Len(a)] = 0 THEN BigNormFrom(SubSeq(a, 1, Len(a) - 1)) ELSE a

BigNorm(a) == ByValue1(BigNormFrom, a)

FromInt(n) ==
    BigNorm(<<n % Base, (n \div Base) % Base, n \div (Base * Base)>>)

Limb(a, i) == IF i <= Len(a) THEN a[i] ELSE 0

RECURSIVE BigAddFrom(_, _, _, _)
BigAddFrom(a, b, i, carry) ==
    IF i > Len(a) /\ i > Len(b)
    THEN (IF carry = 0 THEN <<>> ELSE <<carry>>)
    ELSE <<(Limb(a, i) + Limb(b, i) + carry) % Base>>
         \o BigAddFrom(a, b, i + 1, (Limb(a, i) + Limb(b, i) + carry) \div Base)

BigAddValues(a, b) == BigAddFrom(a, b, 1, 0)
BigAdd(a, b) == ByValue2(BigAddValues, a, b)

\* a - b for a >= b.
RECURSIVE BigSubFrom(_, _, _, _)
BigSubFrom(a, b, i, borrow) ==
    IF i > Len(a)
    THEN <<>>
    ELSE LET d == Limb(a, i) - Limb(b, i) - borrow
         IN <<IF d < 0 THEN d + Base ELSE d>>
            \o BigSubFrom(a, b, i + 1, IF d < 0 THEN 1 ELSE 0)

BigSubValues(a, b) == BigNorm(BigSubFrom(a, b, 1, 0))
BigSub(a, b) == ByValue2(BigSubValues, a, b)

\* -1, 0 or 1 as a is below, equal to or above b.
RECURSIVE BigCmpFrom(_, _, _)
BigCmpFrom(a, b, i) ==
    IF i = 0 THEN 0
    ELSE IF a[i] < b[i] THEN -1
    ELSE IF a[i] > b[i] THEN 1
    ELSE BigCmpFrom(a, b, i - 1)

BigCmpValues(a, b) ==
    IF Len(a) < Len(b) THEN -1
    ELSE IF Len(a) > Len(b) THEN 1
    ELSE BigCmpFrom(a, b, Len(a))

BigCmp(a, b) == ByValue2(BigCmpValues, a, b)

\* a * k for a multiplier k of at most six digits.
RECURSIVE BigMulFrom(_, _, _, _)
BigMulFrom(a, k, i, carry) ==
    IF i > Len(a)
    THEN FromInt(carry)
    ELSE <<(a[i] * k + carry) % Base>> \o BigMulFrom(a, k, i + 1, (a[i] * k + carry) \div Base)

BigMulValues(a, k) == BigNorm(BigMulFrom(a, k, 1, 0))
BigMulSmall(a, k) == ByValue2(BigMulValues, a, k)

\* a * Base^n
BigShiftValues(a, n) == IF a = <<>> THEN a ELSE [i \in 1..n |-> 0] \o a
BigShift(a, n) == ByValue2(BigShiftValues, a, n)

\* floor(a / k) for a divisor k of at most five digits.
RECURSIVE BigDivFrom(_, _, _, _)
BigDivFrom(a, k, i, rem) ==
    IF i = 0
    THEN <<>>
    ELSE BigDivFrom(a, k, i - 1, (rem * Base + a[i]) % k)
         \o <<(rem * Base + a[i]) \div k>>

BigDivValues(a, k) == BigNorm(BigDivFrom(a, k, Len(a), 0))
BigDivSmall(a, k) == ByValue2(BigDivValues, a, k)

\* The number of decimal digits of a.
DigitsOfLimb(n) == IF n >= 1000 THEN 4 ELSE IF n >= 100 THEN 3 ELSE IF n >= 10 THEN 2 ELSE 1
BigDigitsOf(a) == IF a = <<>> THEN 0 ELSE 4 * (Len(a) - 1) + DigitsOfLimb(a[Len(a)])
BigDigits(a) == ByValue1(BigDigitsOf, a)

RECURSIVE BigDivPow10(_, _)
BigDivPow10(a, d) == IF d = 0 THEN a ELSE BigDivPow10(BigDivSmall(a, 10), d - 1)

\* a * 10^d
SmallPow10(d) == CASE d = 0 -> 1 [] d = 1 -> 10 [] d = 2 -> 100 [] d = 3 -> 1000
BigMulPow10(a, d) == BigMulSmall(BigShift(a, d \div 4), SmallPow10(d % 4))

\* decimal.js rounds the result of an operation to Decimal.precision (20)
\* significant digits, half up.
DecimalRoundValue(a) ==
    IF BigDigits(a) <= DecimalPrecision
    THEN a
    ELSE LET d == BigDigits(a) - DecimalPrecision
         IN BigMulPow10(BigDivPow10(BigAdd(a, BigMulPow10(<<5>>, d - 1)), d), d)

DecimalRound(a) == ByValue1(DecimalRoundValue, a)

DecimalPlus(a, b) == DecimalRound(BigAdd(a, b))
DecimalMinus(a, b) == DecimalRound(BigSub(a, b))

\* The amount of i whole units and f units of 10^-8.
Dec(i, f) == BigAdd(BigShift(FromInt(i), UnitsPerOne), FromInt(f))
ZERO == <<>>

\* A DECIMAL(20,7) column rounds the value written to seven decimal places,
\* half away from zero.
RoundToScale(r) == BigNorm([r EXCEPT ![1] = @ - (@ % NumericScaleStep)])
StoreNumeric(a) == ByValue1(RoundToScale, BigAdd(a, <<NumericScaleStep \div 2>>))

\* -------------------------------------------------------------- loan service
LoanIds == {"l0", "l1"}
LoanStatuses == {"PENDING", "ACTIVE", "REPAID", "DEFAULTED"}

\* MIN_COLLATERAL_RATIO = 1.5 = MinRatioNum / MinRatioDen
MinRatioNum == 3
MinRatioDen == 2

\* An amount as submitted: a number (its sign and magnitude), or a value
\* new Decimal() cannot parse.
Amount(units) == [numeric |-> TRUE, negative |-> FALSE, units |-> units]
NegativeAmount(units) == [numeric |-> TRUE, negative |-> TRUE, units |-> units]
NotANumber == [numeric |-> FALSE, negative |-> FALSE, units |-> ZERO]

\* parsePositiveDecimal: ok = FALSE where the code throws ValidationError.
parsePositiveDecimal(value) ==
    [ok |-> value.numeric /\ ~value.negative /\ value.units # ZERO, value |-> value.units]

\* collateralAmt.div(amount).lt(MIN_COLLATERAL_RATIO).  The quotient is rounded
\* half up to DecimalPrecision significant digits, so for a quotient between 1
\* and 10 it is below 1.5 after rounding exactly when
\*   collateralAmt / amount + 10^-19 / 2 < 3 / 2,
\* that is when 2 * collateralAmt * 10^19 + amount < 3 * amount * 10^19; a
\* quotient below 1 rounds to at most 1 and one of 10 or more stays above 1.5,
\* as the inequality has it.
RatioBelowMinimum(collateralAmt, amount) ==
    BigCmp(BigAdd(BigMulSmall(BigMulPow10(collateralAmt, DecimalPrecision - 1), MinRatioDen),
                  amount),
           BigMulSmall(BigMulPow10(amount, DecimalPrecision - 1), MinRatioNum)) < 0

NoLoan == [status |-> "NONE", amount |-> ZERO, borrowerId |-> NULL, lenderId |-> NULL]
NoLoanTx == [phase |-> "idle", loanId |-> "", amount |-> ZERO, status |-> "",
             outstandingBefore |-> ZERO, nextStatus |-> "", doomed |-> FALSE,
             rowChanged |-> FALSE,
             borrowerId |-> NULL, lenderId |-> NULL]

\* The checks of issueLoan without the one for the requester.
issueLoanCheckAnyRequester(requestingUserId, borrowerId, lenderId, amount, collateralAmt) ==
    IF requestingUserId = "" THEN Response("ValidationError", "requestingUserId is required")
    ELSE IF borrowerId = "" THEN Response("ValidationError", "borrowerId is required")
    ELSE IF lenderId = "" THEN Response("ValidationError", "lenderId is required")
    ELSE IF borrowerId = lenderId
    THEN Response("ValidationError", "Borrower and lender must be different")
    ELSE IF ~parsePositiveDecimal(amount).ok
    THEN Response("ValidationError", "amount must be a positive number")
    ELSE IF ~parsePositiveDecimal(collateralAmt).ok
    THEN Response("ValidationError", "collateralAmt must be a positive number")
    ELSE IF RatioBelowMinimum(parsePositiveDecimal(collateralAmt).value,
                              parsePositiveDecimal(amount).value)
    THEN Response("ValidationError", "Collateral ratio must be at least 1.50")
    ELSE Ok

\* issueLoan up to its first await: the error thrown, or Ok.
issueLoanCheck(requestingUserId, borrowerId, lenderId, amount, collateralAmt) ==
    IF requestingUserId = "" THEN Response("ValidationError", "requestingUserId is required")
    ELSE IF borrowerId = "" THEN Response("ValidationError", "borrowerId is required")
    ELSE IF lenderId = "" THEN Response("ValidationError", "lenderId is required")
    ELSE IF borrowerId = lenderId
    THEN Response("ValidationError", "Borrower and lender must be different")
    ELSE IF requestingUserId # borrowerId /\ requestingUserId # lenderId
    THEN Response("ForbiddenError", "Only the borrower or lender can create this loan")
    ELSE IF ~parsePositiveDecimal(amount).ok
    THEN Response("ValidationError", "amount must be a positive number")
    ELSE IF ~parsePositiveDecimal(collateralAmt).ok
    THEN Response("ValidationError", "collateralAmt must be a positive number")
    ELSE IF RatioBelowMinimum(parsePositiveDecimal(collateralAmt).value,
                              parsePositiveDecimal(amount).value)
    THEN Response("ValidationError", "Collateral ratio must be at least 1.50")
    ELSE Ok

\* What the steps of issueLoan leave alone.
IssueFrame ==
    UNCHANGED <<users, wallets, walletSeq, challenges, creating, pc, req, tx, now, escrowVars, repayments,
                webhookSecret>>

\* The request ends with an error, or, from its last step, with its result.
IssueReturn(p, result) ==
    /\ Respond("issueLoan", result)
    /\ ltx' = [ltx EXCEPT ![p] = NoLoanTx]

\* POST /api/loans: issueLoan up to its first await.
issueLoan(p, requestingUserId, borrowerId, lenderId, amount, collateralAmt) ==
    LET result == issueLoanCheck(requestingUserId, borrowerId, lenderId, amount, collateralAmt)
    IN
    /\ ltx[p].phase = "idle"
    /\ IF result # Ok
       THEN /\ Respond("issueLoan", result)
            /\ UNCHANGED ltx
       ELSE /\ ltx' = [ltx EXCEPT ![p] =
                         [NoLoanTx EXCEPT !.phase = "issue_find",
                                          !.amount = parsePositiveDecimal(amount).value,
                                          !.borrowerId = borrowerId,
                                          !.lenderId = lenderId]]
            /\ UNCHANGED resp
    /\ UNCHANGED loans
    /\ published' = {}
    /\ IssueFrame

\* issueLoan: user.findMany, the check of its rows and of the contract id.
issueLoanFind(p, contractId) ==
    LET t == ltx[p] IN
    /\ t.phase = "issue_find"
    /\ IF Cardinality({u \in {t.borrowerId, t.lenderId} \cap UserIds : users[u] # NoString}) # 2
       THEN IssueReturn(p, Response("ValidationError", "borrowerId or lenderId does not exist"))
       ELSE IF TrimContractId(contractId) = ""
       THEN IssueReturn(p, Response("ValidationError", "LOAN_CONTRACT_ID not configured"))
       ELSE /\ ltx' = [ltx EXCEPT ![p].phase = "issue_build"]
            /\ UNCHANGED resp
    /\ UNCHANGED loans
    /\ published' = {}
    /\ IssueFrame

\* issueLoan: the invocation builder answers.
issueLoanBuild(p, built) ==
    /\ ltx[p].phase = "issue_build"
    /\ IF InvocationBuilt(built)
       THEN /\ ltx' = [ltx EXCEPT ![p].phase = "issue_insert"]
            /\ UNCHANGED resp
       ELSE IssueReturn(p, BuildError)
    /\ UNCHANGED loans
    /\ published' = {}
    /\ IssueFrame

\* issueLoan: loan.create.  The Loan table has a column interestRate that is
\* NOT NULL and has no default, and no columns collateralAmt and
\* escrowAddress; the data that issueLoan hands to loan.create names the
\* latter two and gives no interestRate.  The store rejects the statement
\* before it looks at the referenced user rows: no row is written, the call
\* rejects with the store's error and never comes to its broadcast.
issueLoanInsert(p) ==
    /\ ltx[p].phase = "issue_insert"
    /\ UNCHANGED loans
    /\ published' = {}
    /\ IssueReturn(p, Response("PrismaClientKnownRequestError", "P2011"))
    /\ IssueFrame

\* The sum of the amounts of a loan's repayment rows.
RECURSIVE SumOfBagFrom(_)
SumOfBagFrom(b) ==
    IF BagToSet(b) = {}
    THEN ZERO
    ELSE ByValue1(LAMBDA a : DecimalPlus(a, SumOfBagFrom(b (-) SetToBag({a}))),
                  CHOOSE x \in BagToSet(b) : TRUE)

SumOfBag(b) == ByValue1(SumOfBagFrom, b)

totalRepaid(loanId) == SumOfBag(repayments[loanId])

\* outstandingBefore = loan.amount - totalRepaid (never negative: see the
\* checks below and the rounding of the stored amounts).
outstandingBefore(loanId) ==
    IF BigCmp(loans[loanId].amount, totalRepaid(loanId)) < 0
    THEN ZERO
    ELSE DecimalMinus(loans[loanId].amount, totalRepaid(loanId))

\* The checks without the one for a loan that is fully repaid.
recordRepaymentCheckNoRepaid(requestingUserId, loanId, amount) ==
    IF requestingUserId = "" THEN Response("ValidationError", "requestingUserId is required")
    ELSE IF loanId = "" THEN Response("ValidationError", "loanId is required")
    ELSE IF ~parsePositiveDecimal(amount).ok
    THEN Response("ValidationError", "amount must be a positive number")
    ELSE IF loanId \notin LoanIds \/ loans[loanId].status = "NONE"
    THEN Response("NotFoundError", "Loan not found")
    ELSE IF requestingUserId # loans[loanId].borrowerId
            /\ requestingUserId # loans[loanId].lenderId
    THEN Response("ForbiddenError", "Only the borrower or lender can record repayments")
    ELSE IF loans[loanId].status = "DEFAULTED"
    THEN Response("ValidationError", "Cannot record repayment for a defaulted loan")
    ELSE IF BigCmp(parsePositiveDecimal(amount).value, outstandingBefore(loanId)) > 0
    THEN Response("ValidationError", "Repayment exceeds outstanding balance")
    ELSE Ok

\* The checks without the one for an amount above the outstanding balance.
recordRepaymentCheckNoExcess(requestingUserId, loanId, amount) ==
    IF requestingUserId = "" THEN Response("ValidationError", "requestingUserId is required")
    ELSE IF loanId = "" THEN Response("ValidationError", "loanId is required")
    ELSE IF ~parsePositiveDecimal(amount).ok
    THEN Response("ValidationError", "amount must be a positive number")
    ELSE IF loanId \notin LoanIds \/ loans[loanId].status = "NONE"
    THEN Response("NotFoundError", "Loan not found")
    ELSE IF requestingUserId # loans[loanId].borrowerId
            /\ requestingUserId # loans[loanId].lenderId
    THEN Response("ForbiddenError", "Only the borrower or lender can record repayments")
    ELSE IF loans[loanId].status = "DEFAULTED"
    THEN Response("ValidationError", "Cannot record repayment for a defaulted loan")
    ELSE IF BigCmp(loans[loanId].amount, totalRepaid(loanId)) <= 0
    THEN Response("ValidationError", "Loan is already fully repaid")
    ELSE Ok

\* The checks without the one for a defaulted loan.
recordRepaymentCheckNoDefaulted(requestingUserId, loanId, amount) ==
    IF requestingUserId = "" THEN Response("ValidationError", "requestingUserId is required")
    ELSE IF loanId = "" THEN Response("ValidationError", "loanId is required")
    ELSE IF ~parsePositiveDecimal(amount).ok
    THEN Response("ValidationError", "amount must be a positive number")
    ELSE IF loanId \notin LoanIds \/ loans[loanId].status = "NONE"
    THEN Response("NotFoundError", "Loan not found")
    ELSE IF requestingUserId # loans[loanId].borrowerId
            /\ requestingUserId # loans[loanId].lenderId
    THEN Response("ForbiddenError", "Only the borrower or lender can record repayments")
    ELSE IF BigCmp(loans[loanId].amount, totalRepaid(loanId)) <= 0
    THEN Response("ValidationError", "Loan is already fully repaid")
    ELSE IF BigCmp(parsePositiveDecimal(amount).value, outstandingBefore(loanId)) > 0
    THEN Response("ValidationError", "Repayment exceeds outstanding balance")
    ELSE Ok

\* recordRepayment up to the insert: the error thrown, or Ok.
recordRepaymentCheck(requestingUserId, loanId, amount) ==
    IF requestingUserId = "" THEN Response("ValidationError", "requestingUserId is required")
    ELSE IF loanId = "" THEN Response("ValidationError", "loanId is required")
    ELSE IF ~parsePositiveDecimal(amount).ok
    THEN Response("ValidationError", "amount must be a positive number")
    ELSE IF loanId \notin LoanIds \/ loans[loanId].status = "NONE"
    THEN Response("NotFoundError", "Loan not found")
    ELSE IF requestingUserId # loans[loanId].borrowerId
            /\ requestingUserId # loans[loanId].lenderId
    THEN Response("ForbiddenError", "Only the borrower or lender can record repayments")
    ELSE IF loans[loanId].status = "DEFAULTED"
    THEN Response("ValidationError", "Cannot record repayment for a defaulted loan")
    ELSE IF BigCmp(loans[loanId].amount, totalRepaid(loanId)) <= 0
    THEN Response("ValidationError", "Loan is already fully repaid")
    ELSE IF BigCmp(parsePositiveDecimal(amount).value, outstandingBefore(loanId)) > 0
    THEN Response("ValidationError", "Repayment exceeds outstanding balance")
    ELSE Ok

\* recordRepayment: input checks, then, in a SERIALIZABLE transaction, the read
\* of the loan with its repayments and the checks on them.  The snapshot of
\* the transaction is the committed state at this read.
recordRepaymentBegin(p, requestingUserId, loanId, amount) ==
    LET result == recordRepaymentCheck(requestingUserId, loanId, amount)
    IN
    /\ ltx[p].phase = "idle"
    /\ result = Ok => BagCardinality(repayments[loanId]) < MaxRepayments
    /\ IF result # Ok
       THEN /\ Respond("recordRepayment", result)
            /\ UNCHANGED ltx
       ELSE /\ ltx' = [ltx EXCEPT ![p] =
                         [NoLoanTx EXCEPT !.phase = "create", !.loanId = loanId,
                                          !.amount = parsePositiveDecimal(amount).value,
                                          !.status = loans[loanId].status,
                                          !.outstandingBefore = outstandingBefore(loanId)]]
            /\ UNCHANGED resp
    /\ published' = {}
    /\ UNCHANGED <<users, wallets, walletSeq, challenges, creating, pc, req, tx, now, escrowVars,
                   loans, repayments, webhookSecret>>

\* outstandingAfter = outstandingBefore - amount, of the transaction t.
outstandingAfter(t) == DecimalMinus(t.outstandingBefore, t.amount)

\* What recordRepayment returns beside the rows: the two balances and
\* fullyRepaid.
recordRepaymentResult(t) ==
    [outstandingBefore |-> t.outstandingBefore,
     outstandingAfter |-> outstandingAfter(t),
     fullyRepaid |-> outstandingAfter(t) = ZERO]

\* nextStatus of recordRepayment.
NextLoanStatus(status, balance) ==
    IF balance = ZERO THEN "REPAID"
    ELSE IF status = "PENDING" THEN "ACTIVE"
    ELSE status

\* The Loan row is locked by the uncommitted update of another transaction.
LoanRowLockedByOther(p, loanId) ==
    \E q \in Procs \ {p} :
        /\ ltx[q].phase = "commit"
        /\ ltx[q].loanId = loanId
        /\ ltx[q].nextStatus # ltx[q].status

\* The store cancels a SERIALIZABLE transaction that read what a concurrent
\* transaction, committed since, has written (Prisma error P2034).
SerializationFailure == Response("PrismaClientKnownRequestError", "P2034")

LoanRollback(p, result) ==
    /\ Respond("recordRepayment", result)
    /\ ltx' = [ltx EXCEPT ![p] = NoLoanTx]
    /\ UNCHANGED <<loans, repayments>>

\* recordRepayment: repayment.create and the computation of nextStatus.  The
\* foreign-key check of the insert does not wait for an update of the loan's
\* status.
recordRepaymentCreate(p) ==
    LET t == ltx[p]
        nextStatus == NextLoanStatus(t.status, outstandingAfter(t))
    IN
    /\ t.phase = "create"
    /\ IF t.doomed
       THEN LoanRollback(p, SerializationFailure)
       ELSE /\ ltx' = [ltx EXCEPT ![p] =
                         [t EXCEPT !.phase = IF nextStatus # t.status THEN "update" ELSE "commit",
                                   !.nextStatus = nextStatus]]
            /\ UNCHANGED <<loans, repayments, resp>>
    /\ published' = {}
    /\ UNCHANGED <<users, wallets, walletSeq, challenges, creating, pc, req, tx, now, escrowVars, webhookSecret>>

\* recordRepayment: loan.update, run where the status changes, and the
\* broadcast that follows it.  The update waits for the lock of the row, and
\* the store cancels it when the row was changed after the transaction's
\* snapshot.
recordRepaymentUpdate(p) ==
    LET t == ltx[p] IN
    /\ t.phase = "update"
    /\ IF t.doomed \/ t.rowChanged
       THEN /\ LoanRollback(p, SerializationFailure)
            /\ published' = {}
       ELSE /\ ~LoanRowLockedByOther(p, t.loanId)
            /\ ltx' = [ltx EXCEPT ![p].phase = "commit"]
            /\ published' = {LoanUpdated(t.loanId, t.nextStatus)}
            /\ UNCHANGED <<loans, repayments, resp>>
    /\ UNCHANGED <<users, wallets, walletSeq, challenges, creating, pc, req, tx, now, escrowVars, webhookSecret>>

\* A store that never cancels a transaction.
DoomNone(t, loanId) == t

\* At the commit of a transaction that wrote to a loan, every other open
\* transaction that read that loan is marked for cancellation.
DoomConcurrent(t, loanId) ==
    IF t.phase # "idle" /\ t.loanId = loanId THEN [t EXCEPT !.doomed = TRUE] ELSE t

\* recordRepayment: the read of the updated loan and the commit.  The status
\* is written where loan.update ran.
recordRepaymentCommit(p) ==
    LET t == ltx[p]
    IN
    /\ t.phase = "commit"
    /\ IF t.doomed
       THEN LoanRollback(p, SerializationFailure)
       ELSE /\ Respond("recordRepayment", Ok)
            /\ repayments' = [repayments EXCEPT ![t.loanId] =
                                @ (+) SetToBag({StoreNumeric(t.amount)})]
            /\ loans' = IF t.nextStatus # t.status
                        THEN [loans EXCEPT ![t.loanId].status = t.nextStatus]
                        ELSE loans
            /\ ltx' = [q \in Procs |->
                         IF q = p THEN NoLoanTx ELSE DoomConcurrent(ltx[q], t.loanId)]
    /\ published' = {}
    /\ UNCHANGED <<users, wallets, walletSeq, challenges, creating, pc, req, tx, now, escrowVars, webhookSecret>>

\* An open transaction that read the loan has a snapshot older than the row.
RowChanged(t, loanId) ==
    IF t.phase # "idle" /\ t.loanId = loanId THEN [t EXCEPT !.rowChanged = TRUE] ELSE t

\* DatabaseService.updateLoanStatus: one autocommitted loan.update outside
\* the loan service, with no check of the status.  It throws P2025 when the
\* loan does not exist and waits while an open transaction has updated the
\* row.
updateLoanStatus(id, status) ==
    /\ ~(\E q \in Procs : /\ ltx[q].phase = "commit"
                          /\ ltx[q].loanId = id
                          /\ ltx[q].nextStatus # ltx[q].status)
    /\ IF loans[id].status = "NONE"
       THEN /\ Respond("updateLoanStatus", Response("PrismaClientKnownRequestError", "P2025"))
            /\ UNCHANGED <<loans, ltx>>
       ELSE /\ loans' = [loans EXCEPT ![id].status = status]
            /\ ltx' = [q \in Procs |-> RowChanged(ltx[q], id)]
            /\ UNCHANGED resp
    /\ published' = {}
    /\ UNCHANGED <<users, wallets, walletSeq, challenges, creating, pc, req, tx, now, escrowVars,
                   repayments, webhookSecret>>

\* The requests to issue a loan: the collateral examples, a loan of thirteen
\* digits whose collateral misses the ratio by 10^-7, and flawed requests.
IssueRequests ==
    {[requestingUserId |-> "u1", borrowerId |-> "u1", lenderId |-> "u2",
      amount |-> Amount(Dec(a, 0)), collateralAmt |-> Amount(Dec(c, 0))] :
        <<a, c>> \in {<<300, 450>>, <<100, 149>>, <<100, 150>>}}
    \cup {[requestingUserId |-> "u2", borrowerId |-> "u1", lenderId |-> "u2",
           amount |-> Amount(BigShift(<<4>>, 5)),
           collateralAmt |-> Amount(BigSub(BigShift(<<6>>, 5), <<NumericScaleStep>>))],
          [requestingUserId |-> "u3", borrowerId |-> "u1", lenderId |-> "u2",
           amount |-> Amount(Dec(300, 0)), collateralAmt |-> Amount(Dec(450, 0))],
          [requestingUserId |-> "u1", borrowerId |-> "u1", lenderId |-> "u1",
           amount |-> Amount(Dec(300, 0)), collateralAmt |-> Amount(Dec(450, 0))],
          [requestingUserId |-> "u1", borrowerId |-> "u1", lenderId |-> "u3",
           amount |-> Amount(Dec(300, 0)), collateralAmt |-> Amount(Dec(450, 0))],
          [requestingUserId |-> "", borrowerId |-> "u1", lenderId |-> "u2",
           amount |-> Amount(Dec(300, 0)), collateralAmt |-> Amount(Dec(450, 0))],
          [requestingUserId |-> "u1", borrowerId |-> "u1", lenderId |-> "u2",
           amount |-> NotANumber, collateralAmt |-> Amount(Dec(450, 0))],
          [requestingUserId |-> "u1", borrowerId |-> "u1", lenderId |-> "u2",
           amount |-> Amount(Dec(300, 0)), collateralAmt |-> NegativeAmount(Dec(450, 0))]}

\* The repayments submitted on the seeded loan of 300, of which 50 are repaid:
\* parts of the rest, the rest, more than the rest, an amount of eight decimal
\* places, and flawed requests.
RepaymentRequests ==
    {[requestingUserId |-> "u1", loanId |-> "l0", amount |-> Amount(a)] :
        a \in {Dec(50, 0), Dec(200, 0), Dec(250, 0), Dec(300, 0), Dec(249, 99999996)}}
    \cup {[requestingUserId |-> "u2", loanId |-> "l1", amount |-> Amount(Dec(50, 0))],
          [requestingUserId |-> "u2", loanId |-> "l0", amount |-> Amount(Dec(250, 0))],
          [requestingUserId |-> "u3", loanId |-> "l0", amount |-> Amount(Dec(50, 0))],
          [requestingUserId |-> "u1", loanId |-> "l9", amount |-> Amount(Dec(50, 0))],
          [requestingUserId |-> "u1", loanId |-> "l0", amount |-> Amount(ZERO)],
          [requestingUserId |-> "", loanId |-> "l0", amount |-> Amount(Dec(50, 0))]}

\* ------------------------------------------------------------- escrow webhook
\* The X-Webhook-Secret header of a request (NoString: no such header).
WebhookHeaders == {NoString, <<"s">>, <<"x">>}

\* A controller that lets every request through.
webhookEscrowUpdateOpen(secretEnv, header) == Ok

\* webhookEscrowUpdate: the check of the header against WEBHOOK_SECRET.
webhookEscrowUpdateCheck(secretEnv, header) ==
    IF secretEnv = NoString \/ header # secretEnv
    THEN Response("Refused",
                  IF secretEnv # NoString THEN "Unauthorized" ELSE "Webhook not configured")
    ELSE Ok

\* webhookEscrowUpdate: the check and the response; the call of
\* processEscrowEvent is commented out in the controller.
webhookEscrowUpdate(header) ==
    /\ Respond("webhookEscrowUpdate", webhookEscrowUpdateCheck(webhookSecret, header))
    /\ published' = {}
    /\ UNCHANGED <<users, wallets, walletSeq, challenges, creating, pc, req, tx, now, escrowVars, loanVars,
                   webhookSecret>>

\* The clock advances.
Tick ==
    /\ now < MaxTicks * TickMs
    /\ now' = now + TickMs
    /\ UNCHANGED <<walletVars, escrowVars, loanVars, webhookSecret>>
    /\ published' = {}

vars == <<users, wallets, walletSeq, challenges, creating, now, pc, req, tx, resp, escrows, epc, ereq, spc, overdue, flipped,
          rewritten, stale, loans, repayments, ltx, published, webhookSecret>>

Init ==
    /\ users = [u \in UserIds |-> NoString]
    /\ wallets = {}
    /\ walletSeq = 0
    /\ challenges = {}
    /\ creating = {}
    /\ now = 0
    /\ pc = [p \in Procs |-> "idle"]
    /\ req = [p \in Procs |-> NoReq]
    /\ tx = [p \in Procs |-> NoTx]
    /\ resp = [op |-> "none", address |-> NoString, nonce |-> NoString,
              error |-> "none", message |-> "none"]
    /\ escrows = [e \in EscrowIds |-> NoEscrow]
    /\ epc = [p \in Procs |-> "idle"]
    /\ ereq = [p \in Procs |-> NoEvent]
    /\ spc = [s \in SweepRuns |-> "idle"]
    /\ overdue = [s \in SweepRuns |-> {}]
    /\ flipped = [s \in SweepRuns |-> {}]
    /\ rewritten = [s \in SweepRuns |-> {}]
    /\ stale = {}
    /\ loans = [l \in LoanIds |-> NoLoan]
    /\ repayments = [l \in LoanIds |-> EmptyBag]
    /\ ltx = [p \in Procs |-> NoLoanTx]
    /\ published = {}
    /\ webhookSecret = NoString

\* The account routes of the first user over an empty store: the users are
\* created by either service, and the first user links the keys A and B and
\* unlinks and promotes the wallets.
FirstUserChallenges ==
    {r \in ChallengeRequests : r.userId = "u1" /\ normalizeAddress(r.address) \in {KeyA, KeyB}}
FirstUserLinks ==
    {r \in LinkRequests : /\ r.userId = "u1"
                          /\ r.address \in {KeyA, KeyB}
                          /\ r.signature = Sign(r.address, "LINK_WALLET", r.nonce)}

Next ==
    \/ \E a \in RawAddresses : createUser(a)
    \/ \E a \in {<<" ", "g", "a">>, <<"X">>} : databaseCreateUser(a)
    \/ \E r \in FirstUserChallenges : generateChallenge(r.address, r.purpose, r.userId)
    \/ \E c \in creating : generateChallengeInsert(c)
    \/ \E p \in Procs, r \in FirstUserLinks :
          linkWalletBegin(p, r.userId, r.address, r.nonce, r.signature, r.label)
    \/ \E p \in Procs : linkWalletFindWallet(p)
    \/ \E p \in Procs : linkWalletFindUser(p)
    \/ \E p \in Procs : linkWalletConsume(p)
    \/ \E p \in Procs : linkWalletCount(p)
    \/ \E p \in Procs : linkWalletCreate(p)
    \/ \E p \in Procs : linkWalletUserUpdate(p)
    \/ \E p \in Procs, w \in WalletIds : unlinkWallet(p, "u1", w)
    \/ \E p \in Procs : unlinkWalletFind(p)
    \/ \E p \in Procs : unlinkWalletClear(p)
    \/ \E p \in Procs : unlinkWalletSet(p)
    \/ \E p \in Procs : unlinkWalletUserUpdate(p)
    \/ \E p \in Procs : unlinkWalletDelete(p)
    \/ \E p \in Procs, w \in WalletIds : setPrimaryWallet(p, "u1", w)
    \/ \E p \in Procs : setPrimaryWalletFind(p)
    \/ \E p \in Procs : setPrimaryWalletClear(p)
    \/ \E p \in Procs : setPrimaryWalletSet(p)
    \/ \E p \in Procs : setPrimaryWalletUserUpdate(p)
    \/ \E p \in Procs : commitTransaction(p)

Spec == Init /\ [][Next]_vars

\* The escrow service runs over the seeded users (prisma/seed.ts: alice, bob).
\* The rows prisma/seed.ts inserts.  Its two addresses have one character less
\* than a public key, so they are strings Keypair.fromPublicKey rejects.
AliceAddress == <<"G", "A", "A", "Z">>
BobAddress == <<"G", "C", "E", "Z">>
SevenDaysMs == 7 * 24 * 60 * 60 * 1000
SeededEscrow == [status |-> "ACTIVE", expiresAt |-> SevenDaysMs,
                 stellarTxHash |-> "abc123deadbeef"]
SeededLoan == [status |-> "ACTIVE", amount |-> Dec(300, 0), borrowerId |-> "u1",
               lenderId |-> "u2"]
SeededRepayment == Dec(50, 0)

InitSeeded ==
    /\ users = [u \in UserIds |-> IF u = "u1" THEN AliceAddress ELSE BobAddress]
    /\ wallets = {[id |-> 1, userId |-> "u1", address |-> AliceAddress, isPrimary |-> TRUE,
                   label |-> LabelPrimary],
                  [id |-> 2, userId |-> "u2", address |-> BobAddress, isPrimary |-> TRUE,
                   label |-> LabelPrimary]}
    /\ walletSeq = 2
    /\ challenges = {}
    /\ creating = {}
    /\ now = 0
    /\ pc = [p \in Procs |-> "idle"]
    /\ req = [p \in Procs |-> NoReq]
    /\ tx = [p \in Procs |-> NoTx]
    /\ resp = [op |-> "none", address |-> NoString, nonce |-> NoString,
              error |-> "none", message |-> "none"]
    /\ escrows = [e \in EscrowIds |-> IF e = "e0" THEN SeededEscrow ELSE NoEscrow]
    /\ epc = [p \in Procs |-> "idle"]
    /\ ereq = [p \in Procs |-> NoEvent]
    /\ spc = [s \in SweepRuns |-> "idle"]
    /\ overdue = [s \in SweepRuns |-> {}]
    /\ flipped = [s \in SweepRuns |-> {}]
    /\ rewritten = [s \in SweepRuns |-> {}]
    /\ stale = {}
    /\ loans = [l \in LoanIds |-> IF l = "l0" THEN SeededLoan ELSE NoLoan]
    /\ repayments = [l \in LoanIds |->
                       IF l = "l0" THEN SetToBag({SeededRepayment}) ELSE EmptyBag]
    /\ ltx = [p \in Procs |-> NoLoanTx]
    /\ published = {}
    /\ webhookSecret = NoString

\* The escrow service: creations with a past and a future expiry, the events
\* for the first escrow created, and the timer's sweep, whose runs overlap and
\* whose store calls can reject.
NextEscrow ==
    \/ \E p \in Procs, x \in {now, now + 1} : createEscrow(p, "u1", "u2", 500, x)
    \/ \E p \in Procs : createEscrowFind(p, "C1")
    \/ \E p \in Procs : createEscrowBuild(p, TRUE)
    \/ \E p \in Procs : createEscrowInsert(p)
    \/ \E p \in Procs, r \in EventRequests :
          processEscrowEventRead(p, r.escrowId, r.status, r.stellarTxHash)
    \/ \E p \in Procs : processEscrowEventUpdate(p)
    \/ \E p \in Procs : processEscrowEventReturn(p)
    \/ \E s \in SweepRuns : timeoutDetectorRead(s)
    \/ \E s \in SweepRuns : timeoutDetectorUpdate(s)
    \/ \E s \in SweepRuns : timeoutDetectorReturn(s)
    \/ \E s \in SweepRuns : timeoutDetectorFail(s)
    \/ Tick

SpecEscrow == InitSeeded /\ [][NextEscrow]_vars

\* The loan service over the seeded users.
NextLoan ==
    \/ \E p \in Procs, r \in {i \in IssueRequests : i.amount = Amount(Dec(300, 0))} :
          issueLoan(p, r.requestingUserId, r.borrowerId, r.lenderId, r.amount, r.collateralAmt)
    \/ \E p \in Procs : issueLoanFind(p, "C1")
    \/ \E p \in Procs : issueLoanBuild(p, TRUE)
    \/ \E p \in Procs : issueLoanInsert(p)
    \/ \E p \in Procs, r \in RepaymentRequests :
          recordRepaymentBegin(p, r.requestingUserId, r.loanId, r.amount)
    \/ \E p \in Procs : recordRepaymentCreate(p)
    \/ \E p \in Procs : recordRepaymentUpdate(p)
    \/ \E p \in Procs : recordRepaymentCommit(p)

SpecLoan == InitSeeded /\ [][NextLoan]_vars

\* The loan service beside DatabaseService.updateLoanStatus: the borrower
\* repays the seeded loan in parts, while the status of the loan is set to
\* any value.
DefaultRepayments ==
    {r \in RepaymentRequests :
        /\ r.requestingUserId = "u1"
        /\ r.loanId = "l0"
        /\ r.amount \in {Amount(Dec(50, 0)), Amount(Dec(200, 0))}}
NextDefault ==
    \/ \E p \in Procs, r \in {i \in IssueRequests : /\ i.amount = Amount(Dec(300, 0))
                                                      /\ i.requestingUserId = "u1"
                                                      /\ i.lenderId = "u2"} :
          issueLoan(p, r.requestingUserId, r.borrowerId, r.lenderId, r.amount, r.collateralAmt)
    \/ \E p \in Procs : issueLoanFind(p, "C1")
    \/ \E p \in Procs : issueLoanBuild(p, TRUE)
    \/ \E p \in Procs : issueLoanInsert(p)
    \/ \E p \in Procs, r \in DefaultRepayments :
          recordRepaymentBegin(p, r.requestingUserId, r.loanId, r.amount)
    \/ \E p \in Procs : recordRepaymentCreate(p)
    \/ \E p \in Procs : recordRepaymentUpdate(p)
    \/ \E p \in Procs : recordRepaymentCommit(p)
    \/ \E st \in LoanStatuses : updateLoanStatus("l0", st)

SpecDefault == InitSeeded /\ [][NextDefault]_vars

\* The wallet routes of the seeded user alice, PATCH /api/wallets/:id included:
\* she links a second key, and unlinks, promotes and labels her wallets.
Labels == {<<" ", "a">>, <<" ">>}
NextLabel ==
    \/ generateChallenge(KeyC, "LINK_WALLET", "u1")
    \/ \E c \in creating : generateChallengeInsert(c)
    \/ \E p \in Procs, r \in {x \in LinkRequests : x.userId = "u1" /\ x.address = KeyC} :
          linkWalletBegin(p, r.userId, r.address, r.nonce, r.signature, r.label)
    \/ \E p \in Procs : linkWalletFindWallet(p)
    \/ \E p \in Procs : linkWalletFindUser(p)
    \/ \E p \in Procs : linkWalletConsume(p)
    \/ \E p \in Procs : linkWalletCount(p)
    \/ \E p \in Procs : linkWalletCreate(p)
    \/ \E p \in Procs, w \in WalletIds : unlinkWallet(p, "u1", w)
    \/ \E p \in Procs : unlinkWalletFind(p)
    \/ \E p \in Procs : unlinkWalletClear(p)
    \/ \E p \in Procs : unlinkWalletSet(p)
    \/ \E p \in Procs : unlinkWalletUserUpdate(p)
    \/ \E p \in Procs : unlinkWalletDelete(p)
    \/ \E p \in Procs, w \in WalletIds : setPrimaryWallet(p, "u1", w)
    \/ \E p \in Procs : setPrimaryWalletFind(p)
    \/ \E p \in Procs : setPrimaryWalletClear(p)
    \/ \E p \in Procs : setPrimaryWalletSet(p)
    \/ \E p \in Procs : setPrimaryWalletUserUpdate(p)
    \/ \E p \in Procs : commitTransaction(p)
    \/ \E p \in Procs, w \in WalletIds, l \in Labels : updateWalletLabelFind(p, "u1", w, l)
    \/ \E p \in Procs : updateWalletLabelUpdate(p)

SpecLabel == InitSeeded /\ [][NextLabel]_vars

\* The wallet routes of both seeded users: either links the key C, and unlinks
\* and promotes wallets, its own and the other's.
NextPrimary ==
    \/ \E u \in UserIds : generateChallenge(KeyC, "LINK_WALLET", u)
    \/ \E c \in creating : generateChallengeInsert(c)
    \/ \E p \in Procs, r \in {x \in LinkRequests : x.address = KeyC} :
          linkWalletBegin(p, r.userId, r.address, r.nonce, r.signature, r.label)
    \/ \E p \in Procs : linkWalletFindWallet(p)
    \/ \E p \in Procs : linkWalletFindUser(p)
    \/ \E p \in Procs : linkWalletConsume(p)
    \/ \E p \in Procs : linkWalletCount(p)
    \/ \E p \in Procs : linkWalletCreate(p)
    \/ \E p \in Procs, u \in UserIds, w \in WalletIds : unlinkWallet(p, u, w)
    \/ \E p \in Procs : unlinkWalletFind(p)
    \/ \E p \in Procs : unlinkWalletClear(p)
    \/ \E p \in Procs : unlinkWalletSet(p)
    \/ \E p \in Procs : unlinkWalletUserUpdate(p)
    \/ \E p \in Procs : unlinkWalletDelete(p)
    \/ \E p \in Procs, u \in UserIds, w \in WalletIds : setPrimaryWallet(p, u, w)
    \/ \E p \in Procs : setPrimaryWalletFind(p)
    \/ \E p \in Procs : setPrimaryWalletClear(p)
    \/ \E p \in Procs : setPrimaryWalletSet(p)
    \/ \E p \in Procs : setPrimaryWalletUserUpdate(p)
    \/ \E p \in Procs : commitTransaction(p)

SpecPrimary == InitSeeded /\ [][NextPrimary]_vars

\* The timeout sweep with failing store calls: one escrow per creation, due in
\* the next millisecond, the webhook events of the first escrow, and the clock.
NextSweep ==
    \/ \E p \in Procs : createEscrow(p, "u1", "u2", 500, now + 1)
    \/ \E p \in Procs : createEscrowFind(p, "C1")
    \/ \E p \in Procs : createEscrowBuild(p, TRUE)
    \/ \E p \in Procs : createEscrowInsert(p)
    \/ \E p \in Procs, st \in EscrowStatuses : processEscrowEventRead(p, "e1", st, "")
    \/ \E p \in Procs : processEscrowEventUpdate(p)
    \/ \E p \in Procs : processEscrowEventReturn(p)
    \/ \E s \in SweepRuns : timeoutDetectorRead(s)
    \/ \E s \in SweepRuns : timeoutDetectorUpdate(s)
    \/ \E s \in SweepRuns : timeoutDetectorReturn(s)
    \/ \E s \in SweepRuns : timeoutDetectorFail(s)
    \/ Tick

SpecSweep == InitSeeded /\ [][NextSweep]_vars

\* The sweep with failing store calls beside one handler.
NextSweepFair ==
    \/ createEscrow("p1", "u1", "u2", 500, now + 1)
    \/ createEscrowFind("p1", "C1")
    \/ createEscrowBuild("p1", TRUE)
    \/ createEscrowInsert("p1")
    \/ \E st \in EscrowStatuses : processEscrowEventRead("p1", "e1", st, "")
    \/ processEscrowEventUpdate("p1")
    \/ processEscrowEventReturn("p1")
    \/ \E s \in SweepRuns : timeoutDetectorRead(s)
    \/ \E s \in SweepRuns : timeoutDetectorUpdate(s)
    \/ \E s \in SweepRuns : timeoutDetectorReturn(s)
    \/ \E s \in SweepRuns : timeoutDetectorFail(s)
    \/ Tick

\* The timer fires as long as the process runs, so a run that can start does
\* start and a run that reached its second read finishes; the bulk update of a
\* run may be rejected, but not every time it is attempted.
SpecSweepFair ==
    /\ InitSeeded
    /\ [][NextSweepFair]_vars
    /\ WF_vars(\E s \in SweepRuns : timeoutDetectorRead(s))
    /\ \A s \in SweepRuns : SF_vars(timeoutDetectorUpdate(s))
    /\ \A s \in SweepRuns : WF_vars(timeoutDetectorReturn(s))

\* Challenges and link requests of the seeded users for the key A, with their
\* flawed variants, while the clock advances by the lifetime of a challenge.
\* (Either user has a primary wallet, so no link reaches the update of the
\* User row.)
ExpiryChallenges == {r \in ChallengeRequests : normalizeAddress(r.address) \notin {KeyB, KeyC}}
ExpiryLinks == {r \in LinkRequests : normalizeAddress(r.address) \notin {KeyB, KeyC}}
NextExpiry ==
    \/ \E r \in ExpiryChallenges : generateChallenge(r.address, r.purpose, r.userId)
    \/ \E c \in creating : generateChallengeInsert(c)
    \/ \E p \in Procs, r \in ExpiryLinks :
          linkWalletBegin(p, r.userId, r.address, r.nonce, r.signature, r.label)
    \/ \E p \in Procs : linkWalletFindWallet(p)
    \/ \E p \in Procs : linkWalletFindUser(p)
    \/ \E p \in Procs : linkWalletConsume(p)
    \/ \E p \in Procs : linkWalletCount(p)
    \/ \E p \in Procs : linkWalletCreate(p)
    \/ \E p \in Procs : commitTransaction(p)
    \/ Tick

SpecExpiry == InitSeeded /\ [][NextExpiry]_vars

\* Challenges and link requests of the seeded users for the keys A and B,
\* with their flawed variants, and LOGIN challenges for the key A with and
\* without a user: a link can present a challenge issued for another address,
\* for another user or with another purpose.
BindingChallenges ==
    {r \in ChallengeRequests : normalizeAddress(r.address) # KeyC}
    \cup {[address |-> KeyA, purpose |-> "LOGIN", userId |-> "u1"]}
BindingLinks == {r \in LinkRequests : normalizeAddress(r.address) # KeyC}
NextBinding ==
    \/ \E r \in BindingChallenges : generateChallenge(r.address, r.purpose, r.userId)
    \/ \E c \in creating : generateChallengeInsert(c)
    \/ \E p \in Procs, r \in BindingLinks :
          linkWalletBegin(p, r.userId, r.address, r.nonce, r.signature, r.label)
    \/ \E p \in Procs : linkWalletFindWallet(p)
    \/ \E p \in Procs : linkWalletFindUser(p)
    \/ \E p \in Procs : linkWalletConsume(p)
    \/ \E p \in Procs : linkWalletCount(p)
    \/ \E p \in Procs : linkWalletCreate(p)
    \/ \E p \in Procs : commitTransaction(p)

SpecBinding == InitSeeded /\ [][NextBinding]_vars

\* The two creating routes with every configuration of the contract ids and
\* every outcome of the invocation builder.
BuildIssueRequests ==
    {r \in IssueRequests :
        \/ r.amount = NotANumber
        \/ r.requestingUserId = "u3"
        \/ r.requestingUserId = "u1" /\ r.lenderId = "u2" /\ r.amount = Amount(Dec(300, 0))
                                     /\ r.collateralAmt = Amount(Dec(450, 0))}

NextBuild ==
    \/ \E p \in Procs, b \in UserIds \cup {NULL}, sl \in UserIds, a \in {0, 500},
          x \in {now, now + 1} :
          createEscrow(p, b, sl, a, x)
    \/ \E p \in Procs, c \in ContractIds : createEscrowFind(p, c)
    \/ \E p \in Procs, built \in BOOLEAN : createEscrowBuild(p, built)
    \/ \E p \in Procs : createEscrowInsert(p)
    \/ \E p \in Procs, r \in BuildIssueRequests :
          issueLoan(p, r.requestingUserId, r.borrowerId, r.lenderId, r.amount, r.collateralAmt)
    \/ \E p \in Procs, c \in ContractIds : issueLoanFind(p, c)
    \/ \E p \in Procs, built \in BOOLEAN : issueLoanBuild(p, built)
    \/ \E p \in Procs : issueLoanInsert(p)

SpecBuild == InitSeeded /\ [][NextBuild]_vars

\* The issue of loans over every request, from an empty store in which the
\* users are created first.
NextIssue ==
    \/ \E a \in RawAddresses : createUser(a)
    \/ \E p \in Procs, r \in IssueRequests :
          issueLoan(p, r.requestingUserId, r.borrowerId, r.lenderId, r.amount, r.collateralAmt)
    \/ \E p \in Procs : issueLoanFind(p, "C1")
    \/ \E p \in Procs : issueLoanBuild(p, TRUE)
    \/ \E p \in Procs : issueLoanInsert(p)

SpecIssue == Init /\ [][NextIssue]_vars

\* The webhook endpoint beside the escrow service, with and without a
\* configured secret.
InitWebhook ==
    /\ users = [u \in UserIds |-> IF u = "u1" THEN AliceAddress ELSE BobAddress]
    /\ wallets = {[id |-> 1, userId |-> "u1", address |-> AliceAddress, isPrimary |-> TRUE,
                   label |-> LabelPrimary],
                  [id |-> 2, userId |-> "u2", address |-> BobAddress, isPrimary |-> TRUE,
                   label |-> LabelPrimary]}
    /\ walletSeq = 2
    /\ challenges = {}
    /\ creating = {}
    /\ now = 0
    /\ pc = [p \in Procs |-> "idle"]
    /\ req = [p \in Procs |-> NoReq]
    /\ tx = [p \in Procs |-> NoTx]
    /\ resp = [op |-> "none", address |-> NoString, nonce |-> NoString,
              error |-> "none", message |-> "none"]
    /\ escrows = [e \in EscrowIds |-> IF e = "e0" THEN SeededEscrow ELSE NoEscrow]
    /\ epc = [p \in Procs |-> "idle"]
    /\ ereq = [p \in Procs |-> NoEvent]
    /\ spc = [s \in SweepRuns |-> "idle"]
    /\ overdue = [s \in SweepRuns |-> {}]
    /\ flipped = [s \in SweepRuns |-> {}]
    /\ rewritten = [s \in SweepRuns |-> {}]
    /\ stale = {}
    /\ loans = [l \in LoanIds |-> IF l = "l0" THEN SeededLoan ELSE NoLoan]
    /\ repayments = [l \in LoanIds |->
                       IF l = "l0" THEN SetToBag({SeededRepayment}) ELSE EmptyBag]
    /\ ltx = [p \in Procs |-> NoLoanTx]
    /\ published = {}
    /\ webhookSecret \in {NoString, <<"s">>}

NextWebhook ==
    \/ \E h \in WebhookHeaders : webhookEscrowUpdate(h)
    \/ createEscrow("p1", "u1", "u2", 500, now + 1)
    \/ createEscrowFind("p1", "C1")
    \/ createEscrowBuild("p1", TRUE)
    \/ createEscrowInsert("p1")
    \/ \E e \in {"e0", "e1"}, st \in {"ACTIVE", "COMPLETED"} :
          processEscrowEventRead("p1", e, st, "")
    \/ processEscrowEventUpdate("p1")
    \/ processEscrowEventReturn("p1")
    \/ \E s \in SweepRuns : timeoutDetectorRead(s)
    \/ \E s \in SweepRuns : timeoutDetectorUpdate(s)
    \/ \E s \in SweepRuns : timeoutDetectorReturn(s)
    \/ Tick

SpecWebhook == InitWebhook /\ [][NextWebhook]_vars

\* ------------------------------------------------------- wallet properties
\* A committed challenge row for the key that has been consumed.
Consumed(address, nonce, purpose) ==
    \E c \in challenges : ChallengeKey(c) = <<address, nonce, purpose>> /\ c.usedAt # NoTime

WalletsOf(u) == {w \in wallets : w.userId = u}
PrimaryOf(rows, u) == {w \in rows : w.userId = u /\ w.isPrimary}

\* The statements of linkWallet after its consuming update.
AfterConsume == {"link_count", "link_create", "link_user_update", "commit"}

\* Handler p runs a statement of its request in this step.
Steps(p) == pc[p] # "idle" /\ pc'[p] # pc[p]

\* The step rolls the transaction of p back and writes no row.
RolledBack(p) ==
    /\ pc'[p] = "idle"
    /\ tx'[p] = NoTx
    /\ users' = users
    /\ wallets' = wallets
    /\ challenges' = challenges

\* C1: a challenge is consumed at most once.  A consumed row stays as it is;
\* no two open transactions hold the consuming write of one challenge; a link
\* that is past its consuming update presented a challenge that no committed
\* link has consumed; and once a link has committed with the challenge
\* (address, nonce, LINK_WALLET), every later consuming update for that address
\* and nonce is answered UnauthorizedError and its transaction is rolled back
\* without a wallet.  This covers the replay of the very request after the
\* wallet has been unlinked.
C1_ConsumedAtMostOnce ==
    [][/\ \A c \in challenges : c.usedAt # NoTime => c \in challenges'
       /\ \A p \in Procs : \A q \in Procs \ {p} :
             \A c \in tx'[p].chal : \A d \in tx'[q].chal : ChallengeKey(c) # ChallengeKey(d)
       /\ \A p \in Procs :
             (req[p].op = "linkWallet" /\ pc[p] \in AfterConsume)
             => /\ ~Consumed(req[p].address, req[p].nonce, "LINK_WALLET")
                /\ \E c \in tx[p].chal :
                      ChallengeKey(c) = <<req[p].address, req[p].nonce, "LINK_WALLET">>
       /\ \A p \in Procs :
             (/\ pc[p] = "link_consume"
              /\ Steps(p)
              /\ Consumed(req[p].address, req[p].nonce, "LINK_WALLET"))
             => /\ RolledBack(p)
                /\ resp'.op = "linkWallet"
                /\ resp'.error = "UnauthorizedError"
                /\ resp'.message = "Invalid or expired challenge"]_vars

\* The identical link request, replayed after its wallet was unlinked, has been
\* refused for its consumed challenge.
C1_ReplayAfterUnlinkRefused ==
    /\ resp.op = "linkWallet"
    /\ resp.error = "UnauthorizedError"
    /\ resp.message = "Invalid or expired challenge"
    /\ Consumed(resp.address, resp.nonce, "LINK_WALLET")
    /\ ~(\E w \in wallets : w.address = resp.address)
    /\ \A p \in Procs : pc[p] = "idle"

\* C2: of two identical link requests for one fresh challenge, one succeeds
\* with 201 and the other fails with a 4xx status, and one Wallet row exists
\* for the address.  The two transactions of one user never overlap (the row
\* lock); the commit of a link answers 201 and leaves exactly one row for the
\* address; and a link of a user for an address that is a committed wallet of
\* that user is at its lookup of the wallet, where it is answered with a
\* status in 400..499 and rolled back.
C2_IdenticalLinkRace ==
    [][/\ \A p \in Procs : \A q \in Procs \ {p} :
             tx'[p].lock # NULL => tx'[q].lock # tx'[p].lock
       /\ \A p \in Procs :
             (req[p].op = "linkWallet" /\ pc[p] = "commit" /\ Steps(p))
             => /\ HttpStatus(resp') = 201
                /\ Cardinality({w \in wallets' : w.address = req[p].address}) = 1
       /\ \A p \in Procs :
             (/\ req[p].op = "linkWallet"
              /\ Steps(p)
              /\ \E w \in wallets : w.address = req[p].address /\ w.userId = req[p].userId)
             => /\ pc[p] = "link_find_wallet"
                /\ RolledBack(p)
                /\ resp'.op = "linkWallet"
                /\ HttpStatus(resp') \in 400..499]_vars

\* The second of two identical requests has been refused: its wallet exists
\* once and the challenge it presented is consumed.
C2_SecondIdenticalRefused ==
    /\ resp.op = "linkWallet"
    /\ HttpStatus(resp) = 409
    /\ Consumed(resp.address, resp.nonce, "LINK_WALLET")
    /\ Cardinality({w \in wallets : w.address = resp.address}) = 1
    /\ \E c \in challenges :
          /\ ChallengeKey(c) = <<resp.address, resp.nonce, "LINK_WALLET">>
          /\ \E w \in wallets : w.address = resp.address /\ w.userId = c.userId
    /\ \A p \in Procs : pc[p] = "idle"

\* C3: in every committed state, every user with at least one wallet has
\* exactly one wallet flagged primary.
C3_ExactlyOnePrimary ==
    \A u \in UserIds : WalletsOf(u) # {} => Cardinality(PrimaryOf(wallets, u)) = 1

\* setPrimaryWallet has moved the flag to the later of a user's two wallets.
C3_PrimaryMoved ==
    /\ resp.op = "setPrimaryWallet"
    /\ resp.error = "none"
    /\ \E u \in UserIds :
          /\ Cardinality(WalletsOf(u)) = 2
          /\ \E w \in WalletsOf(u) : w.isPrimary /\ \A x \in WalletsOf(u) : x.id <= w.id

\* C4: in every committed state the denormalized address of a user with a
\* wallet is the address of the wallet flagged primary, and a step changes the
\* address of an existing user only together with the user's primary flags.
C4_DenormalizedPrimary ==
    [][/\ \A u \in UserIds : \A w \in PrimaryOf(wallets', u) : users'[u] = w.address
       /\ \A u \in UserIds :
             (users[u] # NoString /\ users'[u] # users[u])
             => PrimaryOf(wallets', u) # PrimaryOf(wallets, u)]_vars

\* A primary wallet was unlinked: the address of the user is now that of the
\* replacement, which is not the user's first wallet.
C4_AddressFollowsPrimary ==
    /\ resp.op = "unlinkWallet"
    /\ resp.error = "none"
    /\ \E u \in UserIds : \E w \in WalletsOf(u) :
          w.isPrimary /\ w.id > 1 /\ users[u] = w.address

\* C5: unlinkWallet of the only wallet of a user fails with ValidationError
\* (HTTP 400) and deletes nothing: the findMany of an unlink that returns that
\* one row ends the request so; an unlink that is past its findMany belongs to
\* a user with two committed wallets or more; and no step takes a user who has
\* a wallet to zero wallets, whatever unlinks run concurrently.
C5_OnlyWalletStays ==
    [][/\ \A u \in UserIds :
             WalletsOf(u) # {} => \E w \in wallets' : w.userId = u
       /\ \A p \in Procs :
             (/\ req[p].op = "unlinkWallet"
              /\ pc[p] \in {"unlink_clear", "unlink_set", "unlink_user_update",
                            "unlink_delete", "commit"})
             => Cardinality(WalletsOf(req[p].userId)) >= 2
       /\ \A p \in Procs :
             (/\ pc[p] = "unlink_find"
              /\ Steps(p)
              /\ Ids(WalletsOf(req[p].userId)) = {req[p].walletId})
             => /\ RolledBack(p)
                /\ resp'.op = "unlinkWallet"
                /\ resp'.error = "ValidationError"
                /\ resp'.message = "Cannot unlink the only wallet"
                /\ HttpStatus(resp') = 400]_vars

\* After the first of a user's two wallets was unlinked, the unlink of the
\* second, now the only one, has been refused.
C5_SecondUnlinkRefused ==
    /\ resp.op = "unlinkWallet"
    /\ HttpStatus(resp) = 400
    /\ resp.message = "Cannot unlink the only wallet"
    /\ Cardinality(wallets) = 1
    /\ \E w \in wallets : w.id = 2

\* C6: unlinkWallet of the primary wallet of a user with another wallet goes
\* on to commit a state without the removed wallet, with exactly one of the
\* remaining wallets primary and the user's address that of the replacement:
\* once its findMany has chosen the replacement, no statement of the unlink
\* ends the request before the commit, and the commit is as described; no
\* committed state shows the user without a primary wallet.
C6_UnlinkPrimaryPromotes ==
    [][/\ \A u \in UserIds : WalletsOf(u) # {} => PrimaryOf(wallets', u) # {}
       /\ \A p \in Procs :
             (/\ req[p].op = "unlinkWallet"
              /\ req[p].replacement # 0
              /\ Steps(p))
             => IF pc[p] # "commit"
                THEN pc'[p] # "idle"
                ELSE /\ resp'.error = "none"
                     /\ req[p].walletId \notin Ids(wallets')
                     /\ Cardinality(PrimaryOf(wallets', req[p].userId)) = 1
                     /\ \A x \in PrimaryOf(wallets', req[p].userId) :
                           /\ x.id = req[p].replacement
                           /\ users'[req[p].userId] = x.address]_vars

\* C7: an address is linked at most once.  No two Wallet rows carry one
\* address; a link whose lookup finds a committed wallet of its address is
\* answered ConflictError (HTTP 409) and changes nothing; and a link whose
\* insert meets the committed row of a concurrent link of the same address
\* ends with ConflictError, its transaction rolled back.  A link that another
\* user's committed link of its address has overtaken never succeeds: it ends
\* rolled back, with ConflictError unless its own signature or challenge is
\* refused (ValidationError, UnauthorizedError) on the way to the insert.
C7_AddressLinkedOnce ==
    [][/\ \A w1 \in wallets' : \A w2 \in wallets' : w1.address = w2.address => w1 = w2
       /\ \A p \in Procs :
             (/\ pc[p] \in {"link_find_wallet", "link_create"}
              /\ Steps(p)
              /\ \E w \in wallets : w.address = req[p].address)
             => /\ RolledBack(p)
                /\ resp'.op = "linkWallet"
                /\ resp'.error = "ConflictError"
                /\ HttpStatus(resp') = 409
       /\ \A p \in Procs :
             (/\ req[p].op = "linkWallet"
              /\ Steps(p)
              /\ pc'[p] = "idle"
              /\ \E w \in wallets : w.address = req[p].address /\ w.userId # req[p].userId)
             => /\ RolledBack(p)
                /\ \/ resp'.error = "ConflictError"
                   \/ /\ pc[p] = "link_find_user"
                      /\ resp'.error \in {"ValidationError", "UnauthorizedError"}
                   \/ /\ pc[p] = "link_consume"
                      /\ resp'.error = "UnauthorizedError"]_vars

\* Two users raced to link one address: the winner has committed, and the
\* loser, its own challenge consumed in its open transaction, is at the insert.
C7_LoserAtInsert ==
    \E p \in Procs :
        /\ pc[p] = "link_create"
        /\ \E c \in tx[p].chal : c.userId = req[p].userId /\ c.usedAt # NoTime
        /\ \E w \in wallets : w.address = req[p].address /\ w.userId # req[p].userId

\* ------------------------------------------------------- escrow properties
\* The transition table as the specification states it.
StatedTransitions(old) ==
    CASE old = "PENDING" -> {"PENDING", "ACTIVE", "COMPLETED", "DISPUTED", "EXPIRED"}
      [] old = "ACTIVE" -> {"ACTIVE", "COMPLETED", "DISPUTED", "EXPIRED"}
      [] old = "DISPUTED" -> {"DISPUTED", "ACTIVE", "COMPLETED", "EXPIRED"}
      [] old = "COMPLETED" -> {"COMPLETED"}
      [] old = "EXPIRED" -> {"EXPIRED"}

TerminalStatuses == {"COMPLETED", "EXPIRED"}

\* C8: every committed change of an escrow's status, by processEscrowEvent or
\* by the timeout sweep, is a pair of the allowed-transition table.
C8_StatusMovesAlongTable ==
    [][\A e \in EscrowIds :
          escrows[e].status # "NONE"
          => escrows'[e].status \in StatedTransitions(escrows[e].status)]_vars

\* A handler has moved an escrow from PENDING to ACTIVE and, before the
\* handler returns, a sweep run has moved it on to EXPIRED, with a second run
\* under way; neither writer has finished.
C8_SweepAndEventWrote ==
    \E s \in SweepRuns, p \in Procs :
        /\ spc[s] = "reread"
        /\ \E t \in SweepRuns \ {s} : spc[t] \in {"update", "reread"}
        /\ epc[p] = "reread"
        /\ ereq[p].existing = "PENDING"
        /\ ereq[p].status = "ACTIVE"
        /\ ereq[p].escrowId \in flipped[s]
        /\ escrows[ereq[p].escrowId].status = "EXPIRED"

\* C9: COMPLETED and EXPIRED are terminal.  No step changes the status of an
\* escrow that is COMPLETED or EXPIRED, and processEscrowEvent asking for any
\* other status on such an escrow fails with ValidationError and writes
\* nothing.
C9_TerminalStatuses ==
    [][/\ \A e \in EscrowIds :
             escrows[e].status \in TerminalStatuses
             => escrows'[e].status = escrows[e].status
       /\ \A p \in Procs :
             (epc[p] = "idle" /\ (epc'[p] = "update" \/ resp' # resp))
             => \A r \in EventRequests :
                   (/\ r.escrowId \in EscrowIds
                    /\ escrows[r.escrowId].status \in TerminalStatuses
                    /\ TrimUpperStatus(r.status) # escrows[r.escrowId].status
                    /\ processEscrowEventRead(p, r.escrowId, r.status, r.stellarTxHash))
                   => /\ resp'.op = "processEscrowEvent"
                      /\ resp'.error = "ValidationError"
                      /\ epc' = epc
                      /\ escrows' = escrows]_vars

\* With every handler and the sweep at rest, the only escrow is COMPLETED and
\* the last event, asking for another status, was refused.
C9_EventOnCompletedRefused ==
    /\ \A p \in Procs : epc[p] = "idle"
    /\ \A s \in SweepRuns : spc[s] = "idle"
    /\ escrows["e1"].status = "COMPLETED"
    /\ escrows["e2"].status = "NONE"
    /\ resp.op = "processEscrowEvent"
    /\ resp.error = "ValidationError"
    /\ resp.message = "Illegal escrow status transition"

ChangedConcurrently(response) ==
    /\ response.op = "processEscrowEvent"
    /\ response.error = "ValidationError"
    /\ response.message = "Escrow status changed concurrently. Please retry with latest state."

\* C10 as stated: of two updates that read the same status of one escrow,
\* exactly one commits its write.  With the write of the first in place, the
\* other, a processEscrowEvent, fails with "changed concurrently", or, a sweep
\* run, leaves the row as it is.
C10_ExactlyOneWrites ==
    [][/\ \A p \in Procs : \A q \in Procs \ {p} :
             (/\ epc[p] = "update"
              /\ epc[q] = "reread"
              /\ ereq[p].escrowId = ereq[q].escrowId
              /\ ereq[p].existing = ereq[q].existing
              /\ escrows[ereq[q].escrowId].status = ereq[q].status
              /\ processEscrowEventUpdate(p))
             => ChangedConcurrently(resp') /\ escrows' = escrows
       /\ \A q \in Procs : \A s \in SweepRuns :
             (/\ spc[s] = "update"
              /\ epc[q] = "reread"
              /\ ereq[q].escrowId \in overdue[s]
              /\ ereq[q].existing = "ACTIVE"
              /\ escrows[ereq[q].escrowId].status = ereq[q].status
              /\ timeoutDetectorUpdate(s))
             => escrows'[ereq[q].escrowId] = escrows[ereq[q].escrowId]]_vars

\* C10, amended: of two updates that read the same status of one escrow, once
\* one has committed a write that changes the status, and with that status in
\* place, the other writes nothing: a processEscrowEvent fails with "changed
\* concurrently", a sweep run skips the row, and the winner's status stays.
\* (After a write that keeps the status, a self-loop, the second update
\* commits as well.)
C10_LoserOfStatusChange ==
    [][/\ \A p \in Procs : \A q \in Procs \ {p} :
             (/\ epc[p] = "update"
              /\ epc[q] = "reread"
              /\ ereq[p].escrowId = ereq[q].escrowId
              /\ ereq[p].existing = ereq[q].existing
              /\ escrows[ereq[q].escrowId].status = ereq[q].status
              /\ ereq[q].status # ereq[q].existing
              /\ processEscrowEventUpdate(p))
             => ChangedConcurrently(resp') /\ escrows' = escrows
       /\ \A p \in Procs : \A s \in SweepRuns :
             (/\ epc[p] = "update"
              /\ spc[s] = "reread"
              /\ ereq[p].escrowId \in overdue[s]
              /\ ereq[p].existing = "ACTIVE"
              /\ escrows[ereq[p].escrowId].status = "EXPIRED"
              /\ processEscrowEventUpdate(p))
             => ChangedConcurrently(resp') /\ escrows' = escrows
       /\ \A q \in Procs : \A s \in SweepRuns :
             (/\ spc[s] = "update"
              /\ epc[q] = "reread"
              /\ ereq[q].escrowId \in overdue[s]
              /\ ereq[q].existing = "ACTIVE"
              /\ escrows[ereq[q].escrowId].status = ereq[q].status
              /\ ereq[q].status # "ACTIVE"
              /\ timeoutDetectorUpdate(s))
             => escrows'[ereq[q].escrowId] = escrows[ereq[q].escrowId]
       /\ \A s \in SweepRuns : \A t \in SweepRuns \ {s} :
             (/\ spc[s] = "update"
              /\ spc[t] = "reread"
              /\ \E e \in overdue[s] : e \in flipped[t] /\ escrows[e].status = "EXPIRED"
              /\ timeoutDetectorUpdate(s))
             => \A e \in flipped[t] : escrows'[e] = escrows[e]]_vars

\* Before any sweep can run, a handler has lost the race for the only escrow:
\* it was answered "changed concurrently", and the status the winner wrote,
\* which differs from the one both read, is in place.
C10_LoserRefused ==
    /\ now = 0
    /\ escrows["e2"].status = "NONE"
    /\ ChangedConcurrently(resp)
    /\ \E q \in Procs :
          /\ epc[q] = "reread"
          /\ ereq[q].status # ereq[q].existing
          /\ escrows[ereq[q].escrowId].status = ereq[q].status

\* --------------------------------------------------------- loan properties
\* C11: under any interleaving of recordRepayment calls, the committed
\* repayments of a loan never sum to more than its amount, the sum never
\* decreases (the outstanding balance never increases), and the amount of
\* the loan stays as issued.
C11_RepaidWithinAmount ==
    [][\A l \in LoanIds :
          loans'[l].status # "NONE"
          => /\ BigCmp(totalRepaid(l)', loans'[l].amount) <= 0
             /\ BigCmp(totalRepaid(l), totalRepaid(l)') <= 0
             /\ loans[l].status # "NONE" => loans'[l].amount = loans[l].amount]_vars

\* Two repayments of one loan ran concurrently: one has committed and brought
\* the loan to REPAID, the other has been cancelled by the store.
C11_ConcurrentRepaymentCancelled ==
    /\ resp.op = "recordRepayment"
    /\ resp = [resp EXCEPT !.error = SerializationFailure.error,
                           !.message = SerializationFailure.message]
    /\ \E l \in LoanIds : loans[l].status = "REPAID" /\ totalRepaid(l) = loans[l].amount

\* C12: in every committed state a loan that is not DEFAULTED is REPAID
\* exactly when its outstanding balance, amount minus the sum of its
\* repayments, is zero.
C12_RepaidIffZero ==
    \A l \in LoanIds :
        loans[l].status \notin {"NONE", "DEFAULTED"}
        => (loans[l].status = "REPAID" <=> totalRepaid(l) = loans[l].amount)

\* The step is handler p taking up a repayment request: it opens its
\* transaction or answers the request.
RepaymentTaken(p) ==
    /\ ltx[p].phase = "idle"
    /\ (ltx'[p].phase = "create" \/ (resp' # resp /\ resp'.op = "recordRepayment"))

\* A repayment request that passes the checks made before the loan is read,
\* from a party to the loan it names.
FromParty(r) ==
    /\ r.loanId \in LoanIds
    /\ parsePositiveDecimal(r.amount).ok
    /\ r.requestingUserId \in {loans[r.loanId].borrowerId, loans[r.loanId].lenderId}

\* C13: a loan never leaves REPAID.  No step changes the status or the
\* repayments of a REPAID loan, and a recordRepayment call on it, made by a
\* party with a positive amount, fails with ValidationError "Loan is already
\* fully repaid" and opens no write.
C13_RepaidIsFinal ==
    [][/\ \A l \in LoanIds :
             loans[l].status = "REPAID"
             => loans'[l].status = "REPAID" /\ repayments'[l] = repayments[l]
       /\ \A p \in Procs :
             RepaymentTaken(p)
             => \A r \in RepaymentRequests :
                   (/\ FromParty(r)
                    /\ loans[r.loanId].status = "REPAID"
                    /\ recordRepaymentBegin(p, r.requestingUserId, r.loanId, r.amount))
                   => /\ resp'.error = "ValidationError"
                      /\ resp'.message = "Loan is already fully repaid"
                      /\ HttpStatus(resp') = 400
                      /\ ltx' = ltx]_vars

\* The seeded loan was repaid in two parts, and the repayment asked for next
\* was refused.
C13_RepaymentAfterRepaidRefused ==
    /\ loans["l0"].status = "REPAID"
    /\ BagCardinality(repayments["l0"]) = 2
    /\ resp.op = "recordRepayment"
    /\ resp.message = "Loan is already fully repaid"
    /\ \A p \in Procs : ltx[p].phase = "idle"

\* The collateral ratio evaluated exactly: 2 * collateralAmt >= 3 * amount.
ExactRatioMet(collateralAmt, amount) ==
    BigCmp(BigMulSmall(collateralAmt, MinRatioDen), BigMulSmall(amount, MinRatioNum)) >= 0

\* C14: issueLoan persists a PENDING loan only if collateralAmt / amount >= 1.5
\* evaluated exactly; with a smaller ratio it fails with ValidationError and no
\* loan is persisted.  issueLoan(amount = 100, collateralAmt = 149) fails and
\* issueLoan(amount = 100, collateralAmt = 150) between two existing users
\* succeeds: a call goes on from its checks only with the ratio met, and a call
\* that went on, between two existing users, stores its loan as PENDING.
C14_ExactCollateralRatio ==
    [][/\ \A p \in Procs, i \in IssueRequests :
             (/\ parsePositiveDecimal(i.amount).ok
              /\ parsePositiveDecimal(i.collateralAmt).ok
              /\ issueLoan(p, i.requestingUserId, i.borrowerId, i.lenderId, i.amount,
                           i.collateralAmt))
             => /\ loans' = loans
                /\ ltx'[p].phase # "idle"
                   => ExactRatioMet(i.collateralAmt.units, i.amount.units)
                /\ ~ExactRatioMet(i.collateralAmt.units, i.amount.units)
                   => /\ resp'.error = "ValidationError"
                      /\ HttpStatus(resp') = 400
                      /\ ltx' = ltx
                /\ (/\ i.amount = Amount(Dec(100, 0))
                    /\ i.collateralAmt = Amount(Dec(149, 0)))
                   => resp'.error = "ValidationError" /\ ltx' = ltx
                /\ (/\ i.amount = Amount(Dec(100, 0))
                    /\ i.collateralAmt = Amount(Dec(150, 0))
                    /\ issueLoanCheck(i.requestingUserId, i.borrowerId, i.lenderId,
                                      i.amount, i.collateralAmt) = Ok)
                   => /\ ltx'[p].phase = "issue_find"
                      /\ ltx'[p].amount = Dec(100, 0)
       /\ \A p \in Procs :
             (/\ ltx[p].phase \in {"issue_find", "issue_build", "issue_insert"}
              /\ ltx'[p] # ltx[p]
              /\ users[ltx[p].borrowerId] # NoString
              /\ users[ltx[p].lenderId] # NoString)
             => IF ltx[p].phase = "issue_insert"
                THEN /\ resp'.op = "issueLoan"
                     /\ resp'.error = "none"
                     /\ \E l \in LoanIds :
                           /\ loans[l].status = "NONE"
                           /\ loans'[l].status = "PENDING"
                           /\ loans'[l].amount = ltx[p].amount
                ELSE /\ ltx'[p].phase # "idle"
                     /\ loans' = loans
       /\ loans' # loans => \E p \in Procs : ltx[p].phase = "issue_insert" /\ ltx'[p] = NoLoanTx]_vars

\* ------------------------------------------------- notification properties
\* The committed state holds what event ev reports.
Reported(ev, escrowRows, loanRows) ==
    IF ev.type = LoanUpdated(ev.id, ev.status).type
    THEN ev.id \in LoanIds /\ loanRows[ev.id].status = ev.status
    ELSE IF ev.type = EscrowUpdated(ev.id, ev.status).type
    THEN ev.id \in EscrowIds /\ escrowRows[ev.id].status = ev.status
    ELSE ev.id \in EscrowIds /\ escrowRows[ev.id].status # "NONE"

\* C15: every notification (EscrowCreated, EscrowUpdated, LoanUpdated) is
\* published only after the state change it reports has committed: at the
\* step that publishes an event the committed rows hold what it reports, so
\* no event is published for a transaction that afterwards rolls back.
C15_PublishedAfterCommit ==
    [][\A ev \in published' : Reported(ev, escrows', loans')]_vars

\* -------------------------------------------------- escrow event properties
\* C16: processEscrowEvent publishes an EscrowUpdated event only if the call
\* itself changed the status: a call whose requested status equals the status
\* it read (a self-loop) publishes nothing when it returns, whatever other
\* writers did to the escrow in the meantime.
C16_SelfLoopSilent ==
    [][\A p \in Procs :
          (/\ epc[p] = "reread"
           /\ ereq[p].status = ereq[p].existing
           /\ processEscrowEventReturn(p))
          => published' = {}]_vars

\* C17: a run of the timeout sweep publishes exactly one EscrowUpdated(EXPIRED)
\* event for each escrow the run itself flipped from ACTIVE to EXPIRED and
\* none for any other escrow.
C17_SweepPublishesFlipped ==
    [][\A s \in SweepRuns :
          (spc[s] = "reread" /\ timeoutDetectorReturn(s))
          => published' = {EscrowUpdated(e, "EXPIRED") : e \in flipped[s]}]_vars

\* C18: an escrow in COMPLETED or EXPIRED is immutable: no step, the repeated
\* notification of its status included, changes a field of its row.
C18_TerminalRowImmutable ==
    [][\A e \in EscrowIds :
          escrows[e].status \in {"COMPLETED", "EXPIRED"} => escrows'[e] = escrows[e]]_vars

\* ------------------------------------------------------- webhook properties
\* C19: a webhook request gets past the check only if a secret is configured
\* and the X-Webhook-Secret header equals it.  With no secret configured the
\* call is refused with 503, with a missing or wrong header with 401, and a
\* webhook call writes no escrow, starts no event handler and publishes
\* nothing.
C19_WebhookGuarded ==
    [][\A h \in WebhookHeaders :
          (resp'.op = "webhookEscrowUpdate" /\ webhookEscrowUpdate(h))
          => /\ escrows' = escrows /\ epc' = epc /\ ereq' = ereq /\ published' = {}
             /\ webhookSecret = NoString => HttpStatus(resp') = 503
             /\ (webhookSecret # NoString /\ h # webhookSecret) => HttpStatus(resp') = 401
             /\ HttpStatus(resp') = 200 => (webhookSecret # NoString /\ h = webhookSecret)]_vars

\* With a secret configured and an active escrow in the store, a webhook call
\* was refused as unauthorized.
C19_UnauthorizedWebhookRefused ==
    /\ webhookSecret # NoString
    /\ resp.op = "webhookEscrowUpdate"
    /\ HttpStatus(resp) = 401
    /\ escrows["e1"].status = "ACTIVE"
    /\ epc = [p \in Procs |-> "idle"]

\* ---------------------------------------------------- escrow trace property
\* Handler p is at phase ph of the event that moves escrow e from PENDING to
\* ACTIVE.
Activating(p, e, ph) ==
    /\ epc[p] = ph
    /\ ereq[p].escrowId = e
    /\ ereq[p].existing = "PENDING"
    /\ ereq[p].status = "ACTIVE"

\* C20: the escrow trace, step by step.  createEscrow goes on from its checks
\* only with an expiry in the future, and between two existing users it then
\* stores a PENDING escrow; processEscrowEvent(ACTIVE) on it yields
\* ACTIVE and, the row being as the call wrote it, publishes the one event
\* EscrowUpdated(ACTIVE); a sweep run after expiresAt has passed selects the
\* escrow, yields EXPIRED and, when it returns, publishes the one event
\* EscrowUpdated(EXPIRED) for each escrow it expired and no event but
\* EscrowUpdated(EXPIRED) of an escrow it selected, whatever handlers and
\* other runs do in between (a run whose store call rejects writes nothing
\* more and publishes nothing); a following processEscrowEvent(ACTIVE) fails
\* with ValidationError and leaves the status EXPIRED.
C20_EscrowTrace ==
    [][/\ \A p \in Procs :
             /\ (epc[p] = "idle" /\ epc'[p] = "create_find")
                => /\ ereq'[p].expiresAt > now
                   /\ escrows' = escrows
             /\ (/\ epc[p] \in {"create_find", "create_build", "create_insert"}
                 /\ epc'[p] # epc[p]
                 /\ users[ereq[p].buyerId] # NoString
                 /\ users[ereq[p].sellerId] # NoString)
                => IF epc[p] = "create_insert"
                   THEN /\ resp'.op = "createEscrow"
                        /\ resp'.error = "none"
                        /\ escrows[NewEscrowId].status = "NONE"
                        /\ escrows'[NewEscrowId].status = "PENDING"
                        /\ escrows'[NewEscrowId].expiresAt = ereq[p].expiresAt
                        /\ published' = {EscrowCreated(NewEscrowId, ereq[p].buyerId,
                                                       ereq[p].sellerId)}
                   ELSE /\ epc'[p] # "idle"
                        /\ escrows' = escrows
       /\ \A e \in EscrowIds :
             (escrows[e].status = "NONE" /\ escrows'[e].status # "NONE")
             => /\ escrows'[e].status = "PENDING"
                /\ \E p \in Procs : epc[p] = "create_insert" /\ epc'[p] = "idle"
       /\ \A p \in Procs, e \in EscrowIds :
             /\ (/\ Activating(p, e, "update")
                 /\ escrows[e].status = "PENDING"
                 /\ processEscrowEventUpdate(p))
                => escrows'[e].status = "ACTIVE"
             /\ (/\ Activating(p, e, "reread")
                 /\ escrows[e].status = "ACTIVE"
                 /\ processEscrowEventReturn(p))
                => /\ published' = {EscrowUpdated(e, "ACTIVE")}
                   /\ HttpStatus(resp') = 200
             /\ (/\ escrows[e].status = "EXPIRED"
                 /\ processEscrowEventRead(p, e, "ACTIVE", ""))
                => /\ resp'.error = "ValidationError"
                   /\ resp'.message = "Illegal escrow status transition"
                   /\ HttpStatus(resp') = 400
                   /\ escrows' = escrows
                   /\ epc' = epc
       /\ \A s \in SweepRuns :
             /\ timeoutDetectorRead(s)
                => overdue'[s] = {e \in EscrowIds : escrows[e].status = "ACTIVE"
                                                     /\ escrows[e].expiresAt < now}
             /\ timeoutDetectorUpdate(s)
                => \A e \in overdue[s] :
                      escrows[e].status = "ACTIVE" => escrows'[e].status = "EXPIRED"
             /\ timeoutDetectorReturn(s)
                => /\ \A e \in flipped[s] : EscrowUpdated(e, "EXPIRED") \in published'
                   /\ published' \subseteq {EscrowUpdated(e, "EXPIRED") : e \in overdue[s]}
             /\ timeoutDetectorFail(s)
                => escrows' = escrows /\ published' = {}]_vars

\* The end of the trace: the escrow's expiry has passed, the escrow is
\* EXPIRED, and its activation has just been refused.
C20_ActivationAfterExpiryRefused ==
    /\ escrows["e1"].status = "EXPIRED"
    /\ escrows["e1"].expiresAt < now
    /\ escrows["e2"].status = "NONE"
    /\ resp.op = "processEscrowEvent"
    /\ resp.message = "Illegal escrow status transition"
    /\ \A s \in SweepRuns : spc[s] = "idle"
    /\ epc = [p \in Procs |-> "idle"]

\* ------------------------------------------------------ loan trace property
\* Handler p commits a repayment of amount on a loan of 300 whose
\* outstanding balance it read as before.
CommitsRepayment(p, before, amount) ==
    /\ ltx[p].phase = "commit"
    /\ ~ltx[p].doomed
    /\ loans[ltx[p].loanId].amount = Dec(300, 0)
    /\ ltx[p].outstandingBefore = before
    /\ ltx[p].amount = amount
    /\ recordRepaymentCommit(p)

\* C21: the loan trace, step by step.  A loan issued with amount 300 is
\* PENDING; the repayment of 50 makes it ACTIVE with outstandingAfter = 250;
\* the repayment of 250 makes it REPAID with outstandingAfter = 0 and
\* fullyRepaid; a further repayment fails with ValidationError "Loan is
\* already fully repaid".
C21_LoanTrace ==
    [][/\ \A p \in Procs :
             (/\ ltx[p].phase = "issue_insert"
              /\ ltx[p].amount = Dec(300, 0)
              /\ issueLoanInsert(p))
             => \E l \in LoanIds :
                   /\ loans[l].status = "NONE"
                   /\ loans'[l].status = "PENDING"
                   /\ loans'[l].amount = Dec(300, 0)
                   /\ repayments'[l] = EmptyBag
       /\ \A l \in LoanIds :
             (loans[l].status = "NONE" /\ loans'[l].status # "NONE")
             => loans'[l].status = "PENDING" /\ repayments'[l] = EmptyBag
       /\ \A p \in Procs, l \in LoanIds :
             /\ (/\ ltx[p].loanId = l
                 /\ ltx[p].status = "PENDING"
                 /\ CommitsRepayment(p, Dec(300, 0), Dec(50, 0)))
                => /\ loans'[l].status = "ACTIVE"
                   /\ recordRepaymentResult(ltx[p]).outstandingAfter = Dec(250, 0)
                   /\ ~recordRepaymentResult(ltx[p]).fullyRepaid
                   /\ outstandingBefore(l)' = Dec(250, 0)
                   /\ HttpStatus(resp') = 200
             /\ (/\ ltx[p].loanId = l
                 /\ ltx[p].status = "ACTIVE"
                 /\ CommitsRepayment(p, Dec(250, 0), Dec(250, 0)))
                => /\ loans'[l].status = "REPAID"
                   /\ recordRepaymentResult(ltx[p]).outstandingAfter = ZERO
                   /\ recordRepaymentResult(ltx[p]).fullyRepaid
                   /\ outstandingBefore(l)' = ZERO
                   /\ HttpStatus(resp') = 200
       /\ \A p \in Procs :
             RepaymentTaken(p)
             => \A r \in RepaymentRequests :
                   (/\ FromParty(r)
                    /\ loans[r.loanId].status = "REPAID"
                    /\ repayments[r.loanId] = SetToBag({Dec(50, 0), Dec(250, 0)})
                    /\ recordRepaymentBegin(p, r.requestingUserId, r.loanId, r.amount))
                   => /\ resp'.error = "ValidationError"
                      /\ resp'.message = "Loan is already fully repaid"
                      /\ loans' = loans
                      /\ repayments' = repayments]_vars

\* The end of the trace on the seeded loan: the loan of 300 holds the
\* repayments 50 and 250, is REPAID, and a further repayment has just been
\* refused.
C21_FurtherRepaymentRefused ==
    /\ loans["l0"].status = "REPAID"
    /\ loans["l0"].amount = Dec(300, 0)
    /\ repayments["l0"] = SetToBag({Dec(50, 0), Dec(250, 0)})
    /\ resp.op = "recordRepayment"
    /\ resp.error = "ValidationError"
    /\ resp.message = "Loan is already fully repaid"
    /\ \A p \in Procs : ltx[p].phase = "idle"

\* ------------------------------------------------- loan refusal properties
\* C22: a recordRepayment call, made by a party to the loan, with an amount
\* greater than the outstanding balance the call reads fails with
\* ValidationError, inserts no repayment, opens no write, leaves the status
\* of the loan as it is and publishes no event.
C22_ExcessRepaymentRefused ==
    [][\A p \in Procs :
          RepaymentTaken(p)
          => \A r \in RepaymentRequests :
                (/\ FromParty(r)
                 /\ BigCmp(r.amount.units, outstandingBefore(r.loanId)) > 0
                 /\ recordRepaymentBegin(p, r.requestingUserId, r.loanId, r.amount))
                => /\ resp'.error = "ValidationError"
                   /\ HttpStatus(resp') = 400
                   /\ repayments' = repayments
                   /\ loans' = loans
                   /\ ltx' = ltx
                   /\ published' = {}]_vars

\* With 50 of 300 repaid, a repayment above the 250 outstanding has been
\* refused and the loan is as it was.
C22_ExcessRefusedOnActiveLoan ==
    /\ loans["l0"].status = "ACTIVE"
    /\ repayments["l0"] = SetToBag({Dec(50, 0)})
    /\ resp.op = "recordRepayment"
    /\ resp.error = "ValidationError"
    /\ resp.message = "Repayment exceeds outstanding balance"
    /\ \A p \in Procs : ltx[p].phase = "idle"

\* C23: repayments are rejected once a loan is DEFAULTED.  A recordRepayment
\* call on a DEFAULTED loan, made by a party with a positive amount, fails
\* with ValidationError "Cannot record repayment for a defaulted loan" and
\* opens no write, and no step of recordRepayment changes the status or the
\* repayments of a DEFAULTED loan.
C23_DefaultedRejectsRepayment ==
    [][/\ \A p \in Procs :
             (\/ recordRepaymentCreate(p)
              \/ recordRepaymentUpdate(p)
              \/ recordRepaymentCommit(p))
             => \A l \in LoanIds :
                   loans[l].status = "DEFAULTED"
                   => loans'[l] = loans[l] /\ repayments'[l] = repayments[l]
       /\ \A p \in Procs :
             RepaymentTaken(p)
             => \A r \in RepaymentRequests :
                   (/\ FromParty(r)
                    /\ loans[r.loanId].status = "DEFAULTED"
                    /\ recordRepaymentBegin(p, r.requestingUserId, r.loanId, r.amount))
                   => /\ resp'.error = "ValidationError"
                      /\ resp'.message = "Cannot record repayment for a defaulted loan"
                      /\ HttpStatus(resp') = 400
                      /\ ltx' = ltx
                      /\ published' = {}]_vars

\* The seeded loan with its one repayment was defaulted, and the repayment
\* asked for next was refused.
C23_RepaymentOnDefaultedRefused ==
    /\ loans["l0"].status = "DEFAULTED"
    /\ repayments["l0"] = SetToBag({Dec(50, 0)})
    /\ resp.op = "recordRepayment"
    /\ resp.message = "Cannot record repayment for a defaulted loan"
    /\ \A p \in Procs : ltx[p].phase = "idle"

\* C24: only a party to a loan can affect it.  recordRepayment on an
\* existing loan by a requester who is neither its borrower nor its lender
\* fails with ForbiddenError and changes nothing, and issueLoan by a
\* requester who is neither the stated borrower nor the stated lender fails
\* with ForbiddenError and persists no loan.
C24_OnlyPartiesAct ==
    [][/\ \A p \in Procs :
             RepaymentTaken(p)
             => \A r \in RepaymentRequests :
                   (/\ r.requestingUserId # ""
                    /\ r.loanId \in LoanIds
                    /\ loans[r.loanId].status # "NONE"
                    /\ parsePositiveDecimal(r.amount).ok
                    /\ r.requestingUserId \notin {loans[r.loanId].borrowerId,
                                                  loans[r.loanId].lenderId}
                    /\ recordRepaymentBegin(p, r.requestingUserId, r.loanId, r.amount))
                   => /\ resp'.error = "ForbiddenError"
                      /\ HttpStatus(resp') = 403
                      /\ loans' = loans
                      /\ repayments' = repayments
                      /\ ltx' = ltx
                      /\ published' = {}
       /\ \A p \in Procs :
             (ltx[p].phase = "idle" /\ (resp'.op = "issueLoan" \/ ltx'[p].phase = "issue_find"))
             => \A i \in IssueRequests :
                   (/\ i.requestingUserId # ""
                    /\ i.borrowerId # ""
                    /\ i.lenderId # ""
                    /\ i.borrowerId # i.lenderId
                    /\ i.requestingUserId \notin {i.borrowerId, i.lenderId}
                    /\ issueLoan(p, i.requestingUserId, i.borrowerId, i.lenderId,
                                 i.amount, i.collateralAmt))
                   => /\ resp'.error = "ForbiddenError"
                      /\ HttpStatus(resp') = 403
                      /\ loans' = loans
                      /\ ltx' = ltx
                      /\ published' = {}]_vars

\* The seeded loan is being repaid by its borrower, and the repayment a third
\* user asked for has been refused.
C24_OutsiderRepaymentRefused ==
    /\ loans["l0"].status = "ACTIVE"
    /\ BagCardinality(repayments["l0"]) = 2
    /\ resp.op = "recordRepayment"
    /\ resp.error = "ForbiddenError"
    /\ resp.message = "Only the borrower or lender can record repayments"

\* ------------------------------------------- escrow concurrency properties
\* C25: the conditional write of processEscrowEvent succeeds only if the row
\* is unchanged since the call read it: when another writer has committed a
\* change to the escrow between the read and the write, the write affects no
\* row and the call fails.
C25_WriteOnlyIfUnchanged ==
    [][\A p \in Procs :
          (epc[p] = "update" /\ p \in stale /\ processEscrowEventUpdate(p))
          => /\ escrows' = escrows
             /\ resp'.error = "ValidationError"
             /\ epc'[p] = "idle"]_vars

\* C26: a handler in the middle of a wallet-mutating operation holds the
\* exclusive lock on the User row, and no other handler holds the same lock.
C26_MutationsHoldUserLock ==
    \A p \in Procs :
        pc[p] # "idle"
        => /\ tx[p].lock # NULL
           /\ \A q \in Procs \ {p} : tx[q].lock # tx[p].lock

\* C27: when a recordRepayment transaction is cancelled because a concurrent
\* call on the same loan committed first, the cancelled call is answered with a
\* ValidationError (status 400, not an internal error), and neither its
\* repayment nor its status update is stored.
C27_ConflictIsValidationError ==
    [][\A p \in Procs :
          (/\ ltx[p].doomed
           /\ \/ recordRepaymentCreate(p)
              \/ recordRepaymentUpdate(p)
              \/ recordRepaymentCommit(p))
          => /\ resp'.error = "ValidationError"
             /\ errorMiddleware(resp'.error) = 400
             /\ loans' = loans
             /\ repayments' = repayments]_vars

\* The escrows a sweep run selects: ACTIVE with expiresAt in the past.
OverdueActive == {e \in EscrowIds : escrows[e].status = "ACTIVE" /\ escrows[e].expiresAt < now}

\* C28: a failed sweep run does not stop the sweep.  The failing step changes
\* no escrow row and publishes nothing; after it the next run can start as soon
\* as an escrow is ACTIVE and overdue; and the run that starts after a failure
\* selects exactly the escrows that are ACTIVE and overdue at that time.
C28_FailedTickKeepsSweeping ==
    /\ []((OverdueActive # {} /\ \E s \in SweepRuns : spc[s] = "failed")
          => ENABLED (\E s \in SweepRuns : timeoutDetectorRead(s)))
    /\ [][\A s \in SweepRuns :
             /\ timeoutDetectorFail(s) => (escrows' = escrows /\ published' = {})
             /\ (spc[s] = "failed" /\ timeoutDetectorRead(s))
                => (overdue'[s] = OverdueActive /\ spc'[s] = "update")]_vars

\* A run has ended in its catch block while an escrow is ACTIVE and overdue.
C28_FailedTickWithOverdueEscrow ==
    /\ \E s \in SweepRuns : spc[s] = "failed"
    /\ escrows["e1"].status = "ACTIVE"
    /\ escrows["e1"].expiresAt < now

\* C29: under a fair sweep timer whose runs do not fail forever, every escrow
\* that is ACTIVE with expiresAt in the past eventually leaves ACTIVE: it is
\* EXPIRED by the sweep, or COMPLETED, DISPUTED or EXPIRED by another writer.
C29_OverdueEventuallyLeavesActive ==
    \A e \in EscrowIds :
        (escrows[e].status = "ACTIVE" /\ escrows[e].expiresAt < now)
        ~> (escrows[e].status \in {"EXPIRED", "COMPLETED", "DISPUTED"})

\* The sweep has expired the overdue escrow in its current run.
C29_SweepExpiredOverdueEscrow ==
    /\ spc[1] = "reread"
    /\ "e1" \in flipped[1]
    /\ escrows["e1"].status = "EXPIRED"
    /\ escrows["e1"].expiresAt < now

\* The challenge rows of the store and of the open transactions.
AllChallengeRows == challenges \cup UNION {tx[p].chal : p \in Procs}

\* The stored challenges a link presents: those of its address and nonce.
Presented(p) ==
    {c \in challenges : ChallengeKey(c) = <<req[p].address, req[p].nonce, "LINK_WALLET">>}

\* C30: a challenge is created unused with expiresAt ten minutes after its
\* issue, the time generateChallenge reads from the clock: the row the call
\* builds has these values, and the insert, which may wait, stores the row as
\* built; a consuming update whose attempt is timed (the clock read by
\* verifyAndConsumeChallenge) at or after the expiresAt of the challenge it
\* presents is answered UnauthorizedError and leaves the challenge unused; a
\* consuming update that succeeds sets usedAt to the time of its attempt,
\* strictly before expiresAt, so every used challenge, and with it every linked
\* wallet, was consumed before its expiry.
C30_ChallengeExpiry ==
    /\ [](\A c \in AllChallengeRows : c.usedAt # NoTime => c.usedAt < c.expiresAt)
    /\ [][/\ \A c \in creating' \ creating :
               c.usedAt = NoTime /\ c.expiresAt = now + 10 * 60 * 1000
          /\ \A c \in challenges' :
               ChallengeKey(c) \notin {ChallengeKey(d) : d \in challenges}
               => /\ c \in creating
                  /\ c.usedAt = NoTime
                  /\ c.expiresAt <= now + 10 * 60 * 1000
          /\ \A p \in Procs :
               (pc[p] = "link_consume" /\ pc'[p] = "link_count")
               => /\ tx'[p].chal # {}
                  /\ \A c \in tx'[p].chal : c.usedAt = req[p].at /\ req[p].at < c.expiresAt
          /\ \A p \in Procs :
               (/\ pc[p] = "link_consume"
                /\ Steps(p)
                /\ \E c \in Presented(p) : c.expiresAt <= req[p].at)
               => /\ RolledBack(p)
                  /\ resp'.op = "linkWallet"
                  /\ resp'.error = "UnauthorizedError"
                  /\ resp'.message = "Invalid or expired challenge"]_vars

\* A link request was refused for its challenge, and the stored challenge for
\* the address and nonce of that request is unused and exactly at its expiresAt.
C30_ExpiredChallengeRefused ==
    /\ resp.op = "linkWallet"
    /\ resp.error = "UnauthorizedError"
    /\ resp.message = "Invalid or expired challenge"
    /\ \E c \in challenges :
          /\ ChallengeKey(c) = <<resp.address, resp.nonce, "LINK_WALLET">>
          /\ c.usedAt = NoTime
          /\ c.expiresAt = now
    /\ \A p \in Procs : pc[p] = "idle"

\* C31: a challenge is consumed only under the binding it was issued with.
\* Whenever a linkWallet call consumes a challenge, the row it marks used is one
\* stored unused row, issued with purpose LINK_WALLET for the address, the
\* nonce and the user of that call.  A call for which the store holds no
\* LINK_WALLET challenge with its address, its nonce and its user (the rows
\* with that nonce were issued for another address, for another user or with
\* purpose LOGIN) is answered UnauthorizedError at its consuming update, and
\* no challenge changes.
C31_ConsumedUnderItsBinding ==
    [][\A p \in Procs :
          /\ (tx'[p].chal # tx[p].chal /\ tx'[p].chal # {})
             => /\ pc[p] = "link_consume"
                /\ \E c \in challenges :
                      /\ c.usedAt = NoTime
                      /\ c.purpose = "LINK_WALLET"
                      /\ c.walletAddress = req[p].address
                      /\ c.nonce = req[p].nonce
                      /\ c.userId = req[p].userId
                      /\ tx'[p].chal = {[c EXCEPT !.usedAt = req[p].at]}
          /\ (/\ pc[p] = "link_consume"
              /\ linkWalletConsume(p)
              /\ ~\E c \in challenges :
                     /\ c.purpose = "LINK_WALLET"
                     /\ c.walletAddress = req[p].address
                     /\ c.nonce = req[p].nonce
                     /\ c.userId = req[p].userId)
             => /\ resp'.op = "linkWallet"
                /\ resp'.error = "UnauthorizedError"
                /\ resp'.message = "Invalid or expired challenge"
                /\ challenges' = challenges]_vars

\* A link request for the key B, made by the user and with the nonce of a
\* live LINK_WALLET challenge issued for the key A, was refused, and the
\* challenge is still unused; so is a live LOGIN challenge for the key A.
C31_OtherAddressChallengeNotConsumed ==
    /\ resp.op = "linkWallet"
    /\ resp.error = "UnauthorizedError"
    /\ resp.message = "Invalid or expired challenge"
    /\ resp.address = KeyB
    /\ \E c \in challenges :
          /\ c.purpose = "LINK_WALLET"
          /\ c.walletAddress = KeyA
          /\ c.userId = "u1"
          /\ c.nonce = resp.nonce
          /\ c.usedAt = NoTime
          /\ c.expiresAt > now
    /\ \E c \in challenges :
          /\ c.purpose = "LOGIN"
          /\ c.walletAddress = KeyA
          /\ c.usedAt = NoTime
    /\ \A p \in Procs : pc[p] = "idle"

\* A link request that presented the nonce of a live LOGIN challenge was
\* refused, and the LOGIN challenge is still unused.
C31_LoginChallengeNotConsumedByLink ==
    /\ resp.op = "linkWallet"
    /\ resp.error = "UnauthorizedError"
    /\ resp.message = "Invalid or expired challenge"
    /\ \E c \in challenges :
          /\ c.purpose = "LOGIN"
          /\ c.walletAddress = resp.address
          /\ c.nonce = resp.nonce
          /\ c.usedAt = NoTime
          /\ c.expiresAt > now
    /\ \A c \in challenges : c.purpose = "LOGIN"
    /\ \A p \in Procs : pc[p] = "idle"

\* The 64 bytes of the signature of a link are a signature of its challenge
\* message by the key of its address.
SignedByAddress(r) ==
    /\ r.signature.enc \in {"hex", "base64"}
    /\ r.signature.signer = r.address
    /\ r.signature.msg = <<"stellovault", "link-wallet", r.nonce>>

\* C32: the signature is checked before the challenge is touched.  A link
\* with a well-encoded signature that does not verify is answered
\* UnauthorizedError "Invalid signature" before its consuming update, its
\* transaction rolled back with no challenge row written; only a link whose
\* signature is one of its address reaches the consuming update; and a
\* consuming update that presents a live challenge of its user consumes it,
\* whatever was refused before.
C32_SignatureBeforeChallenge ==
    [][\A p \in Procs :
          /\ (/\ pc[p] = "link_find_user"
              /\ Steps(p)
              /\ ~(\E v \in UserIds \ {req[p].userId} : users[v] = req[p].address)
              /\ req[p].signature.enc \in {"hex", "base64"})
             => IF SignedByAddress(req[p])
                THEN /\ pc'[p] = "link_consume"
                     /\ tx' = tx
                     /\ challenges' = challenges
                ELSE /\ RolledBack(p)
                     /\ tx[p].chal = {}
                     /\ resp'.op = "linkWallet"
                     /\ resp'.error = "UnauthorizedError"
                     /\ resp'.message = "Invalid signature"
          /\ pc'[p] = "link_consume" => SignedByAddress(req'[p])
          /\ (/\ pc[p] = "link_consume"
              /\ Steps(p)
              /\ \E c \in Presented(p) : /\ c.userId = req[p].userId
                                         /\ c.usedAt = NoTime
                                         /\ c.expiresAt > req[p].at)
             => /\ pc'[p] = "link_count"
                /\ \E c \in tx'[p].chal : c.nonce = req[p].nonce /\ c.usedAt = req[p].at]_vars

\* A request of alice was refused for its signature, and afterwards a request
\* of hers with the same address and nonce has consumed the challenge.
C32_ConsumedAfterBadSignature ==
    /\ resp.op = "linkWallet"
    /\ resp.error = "UnauthorizedError"
    /\ resp.message = "Invalid signature"
    /\ \E p \in Procs :
          /\ pc[p] = "link_count"
          /\ tx[p].lock = "u1"
          /\ req[p].address = resp.address
          /\ req[p].nonce = resp.nonce
          /\ \E c \in tx[p].chal : c.nonce = resp.nonce /\ c.usedAt # NoTime
    /\ \A q \in Procs : pc[q] \in {"idle", "link_count"}

\* C33: isPrimary flips only inside a primary reassignment.  The commit of a
\* linkWallet adds one wallet and leaves the existing rows as they are; the new
\* wallet is primary exactly when the user had no wallet, and then the
\* denormalized address becomes its address, otherwise that address is
\* unchanged.  The commit of an unlinkWallet of a non-primary wallet removes
\* that row only and leaves the denormalized address unchanged.  A stored
\* wallet changes its isPrimary only at the commit of a setPrimaryWallet or of
\* an unlinkWallet that removes the primary wallet.
C33_PrimaryFlipsOnlyOnReassignment ==
    [][\A p \in Procs, u \in UserIds :
          (pc[p] = "commit" /\ tx[p].lock = u /\ pc'[p] = "idle")
          => /\ req[p].op = "linkWallet"
                => /\ WalletsOf(u) \subseteq WalletsOf(u)'
                   /\ Cardinality(WalletsOf(u)' \ WalletsOf(u)) = 1
                   /\ \A w \in WalletsOf(u)' \ WalletsOf(u) :
                         /\ w.isPrimary = (WalletsOf(u) = {})
                         /\ users'[u] = IF WalletsOf(u) = {} THEN w.address ELSE users[u]
             /\ (req[p].op = "unlinkWallet"
                 /\ \A w \in WalletsOf(u) : w.id \in tx[p].del => ~w.isPrimary)
                => /\ WalletsOf(u)' = {w \in WalletsOf(u) : w.id \notin tx[p].del}
                   /\ users'[u] = users[u]
             /\ (\E w \in wallets, x \in wallets' : w.id = x.id /\ w.isPrimary # x.isPrimary)
                => \/ req[p].op = "setPrimaryWallet"
                   \/ /\ req[p].op = "unlinkWallet"
                      /\ \E w \in WalletsOf(u) : w.id \in tx[p].del /\ w.isPrimary]_vars

\* A second wallet was linked: the user has two wallets, the primary one
\* carries the denormalized address and the newest one is not primary.
C33_SecondLinkNotPrimary ==
    \E u \in UserIds :
        /\ Cardinality(WalletsOf(u)) = 2
        /\ \E w \in WalletsOf(u) : w.isPrimary /\ users[u] = w.address
        /\ \E w \in WalletsOf(u) : ~w.isPrimary /\ \A x \in WalletsOf(u) : x.id <= w.id
        /\ resp.op = "linkWallet" /\ resp.error = "none"
        /\ \A p \in Procs : pc[p] = "idle"

\* C34: the invocation payload is built before the insert.  A createEscrow or
\* issueLoan call whose validation fails, whose contract id is not configured
\* or whose builder rejects is answered with an error, stores no row and
\* publishes nothing; none of the statements before the insert writes or
\* publishes; an escrow row is stored only by the insert of a call that passed
\* all of these, together with the event of that row, and no step stores a
\* loan row or publishes a loan event.
C34_BuiltBeforeInsert ==
    [][/\ \A p \in Procs :
            /\ \A b \in UserIds \cup {NULL}, sl \in UserIds, a \in {0, 500}, x \in {now, now + 1} :
                  createEscrow(p, b, sl, a, x)
                  => /\ escrows' = escrows /\ published' = {}
                     /\ IF b # NULL /\ b # sl /\ a > 0 /\ x > now
                        THEN epc'[p] = "create_find"
                        ELSE /\ epc' = epc
                             /\ resp'.op = "createEscrow" /\ resp'.error # "none"
            /\ \A c \in ContractIds :
                  createEscrowFind(p, c)
                  => /\ escrows' = escrows /\ published' = {}
                     /\ IF /\ users[ereq[p].buyerId] # NoString
                           /\ users[ereq[p].sellerId] # NoString
                           /\ c \notin {"", " "}
                        THEN epc'[p] = "create_build"
                        ELSE /\ epc'[p] = "idle"
                             /\ resp'.op = "createEscrow" /\ resp'.error # "none"
            /\ \A built \in BOOLEAN :
                  createEscrowBuild(p, built)
                  => /\ escrows' = escrows /\ published' = {}
                     /\ IF built
                        THEN epc'[p] = "create_insert"
                        ELSE /\ epc'[p] = "idle"
                             /\ resp'.op = "createEscrow" /\ resp'.error # "none"
            /\ \A r \in BuildIssueRequests :
                  issueLoan(p, r.requestingUserId, r.borrowerId, r.lenderId, r.amount,
                            r.collateralAmt)
                  => /\ loans' = loans /\ published' = {}
                     /\ IF issueLoanCheck(r.requestingUserId, r.borrowerId, r.lenderId,
                                          r.amount, r.collateralAmt) = Ok
                        THEN ltx'[p].phase = "issue_find"
                        ELSE /\ ltx' = ltx
                             /\ resp'.op = "issueLoan" /\ resp'.error # "none"
            /\ \A c \in ContractIds :
                  issueLoanFind(p, c)
                  => /\ loans' = loans /\ published' = {}
                     /\ IF /\ users[ltx[p].borrowerId] # NoString
                           /\ users[ltx[p].lenderId] # NoString
                           /\ c \notin {"", " "}
                        THEN ltx'[p].phase = "issue_build"
                        ELSE /\ ltx'[p].phase = "idle"
                             /\ resp'.op = "issueLoan" /\ resp'.error # "none"
            /\ \A built \in BOOLEAN :
                  issueLoanBuild(p, built)
                  => /\ loans' = loans /\ published' = {}
                     /\ IF built
                        THEN ltx'[p].phase = "issue_insert"
                        ELSE /\ ltx'[p].phase = "idle"
                             /\ resp'.op = "issueLoan" /\ resp'.error # "none"
       /\ escrows' # escrows
          => \E p \in Procs, e \in EscrowIds :
                /\ epc[p] = "create_insert"
                /\ escrows[e].status = "NONE"
                /\ escrows'[e].status = "PENDING"
                /\ published' = {EscrowCreated(e, ereq[p].buyerId, ereq[p].sellerId)}
                /\ \A f \in EscrowIds \ {e} : escrows'[f] = escrows[f]
       /\ loans' = loans
       /\ \A l \in LoanIds, st \in LoanStatuses : LoanUpdated(l, st) \notin published']_vars

\* A valid escrow request was refused because the payload could not be built,
\* and a valid loan request before it: beside the seeded rows no escrow and no
\* loan is stored.
C34_UnbuiltCallStoredNothing ==
    /\ resp.op = "createEscrow"
    /\ resp.error = "Error"
    /\ resp.message = "buildContractInvokeXDR rejected"
    /\ \A e \in EscrowIds \ {"e0"} : escrows[e].status = "NONE"
    /\ \A l \in LoanIds \ {"l0"} : loans[l].status = "NONE"
    /\ \A p \in Procs : epc[p] = "idle" /\ ltx[p].phase = "idle"
    /\ published = {}

\* The wallet id is not the id of a committed wallet of the user.
NotOwned(u, w) == ~(\E x \in wallets : x.id = w /\ x.userId = u)

\* The call was answered NotFoundError and wrote nothing.
RefusedNotFound(op) ==
    /\ resp'.op = op
    /\ resp'.error = "NotFoundError"
    /\ resp'.message = "Wallet not found"
    /\ wallets' = wallets /\ users' = users

\* C35: wallet operations are scoped to ownership.  unlinkWallet,
\* setPrimaryWallet and updateWalletLabel called by a user with the id of a
\* wallet that user does not own are answered NotFoundError by their lookup
\* of the wallet and write nothing, and no step of the operations issued by
\* alice changes a wallet, the primary flag or the denormalized address of bob.
C35_ScopedToOwnership ==
    [][/\ {w \in wallets' : w.userId = "u2"} = {w \in wallets : w.userId = "u2"}
       /\ users'["u2"] = users["u2"]
       /\ \A p \in Procs :
            (/\ pc[p] \in {"unlink_find", "primary_find"}
             /\ Steps(p)
             /\ NotOwned(req[p].userId, req[p].walletId))
            => /\ RolledBack(p)
               /\ RefusedNotFound(req[p].op)
       /\ \A p \in Procs, w \in WalletIds, l \in Labels :
            (NotOwned("u1", w) /\ updateWalletLabelFind(p, "u1", w, l))
            => /\ RefusedNotFound("updateWalletLabel")
               /\ pc' = pc
               /\ tx' = tx]_vars

\* alice owns wallets 1 and 3, bob's wallet 2 is as seeded, and the last call,
\* made while the wallets were as they are, was answered NotFoundError.
C35_ForeignWalletNotFound ==
    /\ resp.error = "NotFoundError"
    /\ resp.message = "Wallet not found"
    /\ Ids(WalletsOf("u1")) = {1, 3}
    /\ WalletsOf("u2") = {[id |-> 2, userId |-> "u2", address |-> BobAddress,
                           isPrimary |-> TRUE, label |-> LabelPrimary]}
    /\ users["u2"] = BobAddress
    /\ \A p \in Procs : pc[p] = "idle"

\* C36: a linkWallet call that fails leaves the store as it was.  Whether it
\* is refused before its transaction begins or rolled back at one of its
\* statements, the step that answers it with an error changes no user, wallet
\* or challenge row, ends the transaction of the call, and every challenge the
\* call had consumed is stored unused again.
C36_FailedLinkChangesNothing ==
    [][/\ (resp' # resp /\ resp'.op = "linkWallet" /\ resp'.error # "none")
          => /\ users' = users
             /\ wallets' = wallets
             /\ challenges' = challenges
       /\ \A p \in Procs :
            (/\ req[p].op = "linkWallet"
             /\ pc'[p] = "idle"
             /\ Steps(p)
             /\ resp'.error # "none")
            => /\ RolledBack(p)
               /\ resp'.op = "linkWallet"
               /\ \A c \in tx[p].chal :
                     \E d \in challenges' : ChallengeKey(d) = ChallengeKey(c)
                                             /\ d.usedAt = NoTime]_vars

\* A link was answered ConflictError for an address that a wallet of another
\* user carries, and the challenge of the call is stored unused.
C36_ConflictLeftChallengeUnused ==
    /\ resp.op = "linkWallet"
    /\ resp.error = "ConflictError"
    /\ \E c \in challenges :
          /\ ChallengeKey(c) = <<resp.address, resp.nonce, "LINK_WALLET">>
          /\ c.usedAt = NoTime
          /\ \E w \in wallets : w.address = resp.address /\ w.userId # c.userId
    /\ \A p \in Procs : pc[p] = "idle"

\* C37: an address belongs to at most one user.  In every state no address is
\* at the same time the address of a stored wallet of one user and the
\* denormalized address of a different user.
C37_AddressOfOneUser ==
    \A w \in wallets, v \in UserIds : users[v] = w.address => v = w.userId

\* C38: escrow events account exactly for status changes.  Every operation
\* publishes one EscrowUpdated event for each status change it committed
\* itself, carrying the status it wrote, and no other event: a returning
\* processEscrowEvent publishes its requested status when that differs from the
\* status its conditional update replaced and nothing otherwise, and a
\* returning sweep run publishes EXPIRED for the rows it flipped.  The number
\* of events then equals the number of committed changes with old # new.
C38_EventsAccountForChanges ==
    [][/\ \A p \in Procs :
            (epc[p] = "reread" /\ processEscrowEventReturn(p))
            => published' = IF ereq[p].status # ereq[p].existing
                            THEN {EscrowUpdated(ereq[p].escrowId, ereq[p].status)}
                            ELSE {}
       /\ \A s \in SweepRuns :
            (spc[s] = "reread" /\ timeoutDetectorReturn(s))
            => published' = {EscrowUpdated(e, "EXPIRED") : e \in flipped[s]}]_vars

\* What a step of sweep run s writes: the reads, the return and the failure
\* of a run change no escrow; the bulk update changes only rows the run
\* selected that are ACTIVE when it runs, with expiresAt in the past, and
\* changes nothing but their status, to EXPIRED.
SweepWritesOnlyOverdueActive(s) ==
    /\ (timeoutDetectorRead(s) \/ timeoutDetectorReturn(s) \/ timeoutDetectorFail(s))
       => escrows' = escrows
    /\ timeoutDetectorUpdate(s)
       => \A e \in EscrowIds :
             escrows'[e] # escrows[e]
             => /\ e \in overdue[s]
                /\ escrows[e].status = "ACTIVE"
                /\ escrows[e].expiresAt < now
                /\ escrows'[e] = [escrows[e] EXCEPT !.status = "EXPIRED"]

\* C39 as stated: the timeout sweep writes only ACTIVE -> EXPIRED on overdue
\* escrows.  It changes no row that is PENDING, DISPUTED, COMPLETED or
\* EXPIRED and no ACTIVE row that is not overdue, and its bulk update leaves
\* as it is every selected row that a processEscrowEvent has written since
\* the select.
C39_SweepNeverOverwritesLaterWrite ==
    [][\A s \in SweepRuns :
          /\ SweepWritesOnlyOverdueActive(s)
          /\ timeoutDetectorUpdate(s)
             => \A e \in rewritten[s] : escrows'[e] = escrows[e]]_vars

\* C39, amended: the timeout sweep writes only ACTIVE -> EXPIRED on overdue
\* escrows.  It changes no row that is PENDING, DISPUTED, COMPLETED or
\* EXPIRED and no ACTIVE row that is not overdue, and its bulk update leaves
\* as it is every selected row in which a processEscrowEvent has committed a
\* status other than ACTIVE since the select.  A selected row that an event
\* has written since the select and left or put back ACTIVE is expired.
C39_SweepKeepsLaterNonActive ==
    [][\A s \in SweepRuns :
          /\ SweepWritesOnlyOverdueActive(s)
          /\ timeoutDetectorUpdate(s)
             => \A e \in rewritten[s] :
                   IF escrows[e].status = "ACTIVE"
                   THEN escrows'[e].status = "EXPIRED"
                   ELSE escrows'[e] = escrows[e]]_vars

\* The bulk update of a run has left alone an escrow the run had selected,
\* in which a processEscrowEvent committed COMPLETED or DISPUTED after the
\* select.
C39_LaterStatusKept ==
    \E s \in SweepRuns :
        /\ spc[s] = "reread"
        /\ flipped[s] = {}
        /\ \E e \in rewritten[s] : escrows[e].status \in {"COMPLETED", "DISPUTED"}

\* The status the committed repayments of a loan determine.
StatusOfRepayments(l) ==
    IF totalRepaid(l) = ZERO THEN "PENDING"
    ELSE IF totalRepaid(l) = loans[l].amount THEN "REPAID"
    ELSE "ACTIVE"

\* C40: in every committed state the status of a loan created by issueLoan
\* (any loan but the seeded one) is a function of its committed repayments: PENDING with no repayments, REPAID when they sum to
\* the amount, ACTIVE in between.  And only a call that changes the status
\* publishes LoanUpdated: a recordRepayment call that is rolled back at its
\* commit has published no event.
C40_StatusFunctionOfRepayments ==
    /\ [](\A l \in LoanIds \ {"l0"} :
            loans[l].status # "NONE" => loans[l].status = StatusOfRepayments(l))
    /\ [][\A p \in Procs :
            (ltx[p].phase = "commit" /\ ltx[p].doomed /\ recordRepaymentCommit(p))
            => ltx[p].nextStatus = ltx[p].status]_vars

====
